---- MODULE Spec2Model ----
\* Verification model of the hammer code-generation orchestrator:
\*   * CodeGenWorkflow (workflows package) with the GitActivities session
\*     registry and the GitService repository handle;
\*   * CodeGenerationWorkflow (temporal package) with its status writes.
\* Each activity attempt is one atomic action: the attempt is dispatched to a
\* worker, runs the activity body, and its result is delivered to the workflow
\* or lost (start-to-close timeout).  Retrying follows the RetryPolicy of the
\* workflow's ActivityOptions.
EXTENDS Integers, Sequences, FiniteSets, TLC

\* ---------------------------------------------------------------- bounds
NumWorkers == 2
MaxSteps == 2
\* attempts of one run whose result is lost by a start-to-close timeout
MaxTimeouts == 2

Workers == 1..NumWorkers
\* paths and contents the repository and the generated changes draw from
Files == {"a.go"}
Contents == {"v1", "v2"}
\* a file that does not exist has content NoFile
NoFile == ""
Trees == [Files -> Contents \cup {NoFile}]

\* ------------------------------------------------------ program constants
\* RetryPolicy.MaximumAttempts of CodeGenWorkflow
MaximumAttempts == 4
\* the run's workflow ID (handlers generate a fresh ID per submission)
WorkflowID == "codegen-1"
\* fmt.Sprintf("%sai-%s", BRANCH_PREFIX, RunID)
BranchNameFor(prefix, runID) == prefix \o "ai-" \o runID
\* the values of BRANCH_PREFIX and the run IDs of the executions considered
Prefixes == {"", "feature/"}
RunIDs == {"run", "run-2"}
branchName == BranchNameFor("", "run")

VARIABLES
  \* --- CodeGenWorkflow (workflow-side state)
  pc,              \* activity the workflow is waiting on / "idle" / "done"
  attempt,         \* attempt number of the activity in flight
  cancelled,       \* the workflow context ctx has been cancelled
  gitUsername,     \* os.Getenv("GIT_USERNAME")
  gitPassword,     \* os.Getenv("GIT_PAT")
  creds,           \* gitUsername != "" && gitPassword != ""
  plannedSteps,    \* len(plannedSteps)
  stepNum,         \* stepNum of the loop
  allFiles,        \* result of ListFilesGitActivity
  relevantFiles,   \* evalResult.RelevantFiles
  readFileContent, \* result of ReadFilesGitActivity
  generatedFiles,  \* genCodeResult.GeneratedFiles
  ret,             \* what the workflow returns
  deferRegistered, \* the deferred cleanup function has been registered
  timeouts,        \* attempts whose result was lost so far
  \* --- worker-side state
  gitServiceMap,   \* per worker: GitActivities.gitServiceMap
  repos,           \* every GitService ever constructed (index = handle)
  remoteTree,      \* file tree of the remote repository that is cloned
  \* --- observation (history) variables
  calls,           \* ExecuteActivity calls of the workflow, in order, with
                   \* the step
  listed,          \* per step: the commits seen by its file listing
  cleanupRan,      \* the body of CleanupGitActivity has run
  zeroSteps,       \* steps whose code generation returned no changes
  commitLog,       \* <<handle, step>> of every commit ever created
  collided,        \* a CreateBranch attempt found the branch existing:
                   \* "no" / "kept" (references unchanged) / "changed"
  staleOn,         \* handle on which a timed-out attempt still runs (0: none)
  regOps,          \* accesses to one worker's gitServiceMap that are under way
  regCrashed,      \* the worker process died of a fatal runtime error
  regLast,         \* the last access that finished, with the map before it
  page,            \* the answer of the status query that has just run
  invocation,      \* the body of a git activity call: WriteFilesAndCommit-
                   \* Activity statement by statement, the others in one go
  \* --- CodeGenerationWorkflow (workflow-side state)
  cgPc,            \* activity the workflow is waiting on / "idle" / "done"
  cgAttempt,       \* attempt number of the activity in flight
  cgCancelled,     \* the workflow context ctx has been cancelled
  currentStatus,
  planningErr,     \* "" is nil
  executionErr,
  combineErr,
  saveErr,
  planJSON,
  stepOutputsJSON,
  finalResult,
  planSteps,       \* len(planSteps)
  cgStepNum,       \* stepNum of the loop
  executionOutputs,
  previousOutput,
  cgRet,           \* what the workflow returns
  \* --- status store
  results,         \* table results: workflow_id -> row
  \* --- observation (history) variables
  cgCalls,         \* activity calls of the workflow, in order
  writes,          \* status values written to the store, in order
  planResponse,    \* the planning model's latest answer
  badPlans,        \* attempts that ended with InvalidPlanFormat / EmptyPlan
  softFails,       \* the call sites whose write failed for good or was skipped
  storeOp,         \* the last statement run on the table: none/create/save
  storeIn,         \* the ActivityInput of that statement
  storeBefore      \* the table before that statement

\* control state, set by Proceed / AttemptFailed / ReturnError / ReturnOutput
ctlvars == <<pc, attempt, ret, deferRegistered, timeouts>>
\* variables declared inside the body of the steps loop
locals == <<allFiles, relevantFiles, readFileContent, generatedFiles>>
\* the worker's environment, read once when the workflow starts
env == <<gitUsername, gitPassword, creds>>
wfvars == <<ctlvars, locals, cancelled, env, plannedSteps, stepNum>>
gitvars == <<gitServiceMap, repos, remoteTree>>
hist == <<cleanupRan, zeroSteps, commitLog, collided>>
obsvars == <<calls, listed, hist>>
concvars == <<staleOn>>
regvars == <<regOps, regCrashed, regLast>>
codegenvars ==
  <<wfvars, gitvars, obsvars, concvars, regvars, page, invocation>>

cgCtl == <<cgPc, cgAttempt, cgRet, currentStatus>>
pipeErrs == <<planningErr, executionErr, combineErr>>
cgErrs == <<pipeErrs, saveErr>>
cgLoop == <<planSteps, cgStepNum, executionOutputs, previousOutput>>
cgData == <<planJSON, stepOutputsJSON, finalResult, cgLoop>>
storeHist == <<storeOp, storeIn, storeBefore>>
cgObs == <<cgCalls, writes, planResponse, badPlans, softFails>>
cgvars == <<cgCtl, cgErrs, cgData, cgCancelled, results, cgObs, storeHist>>

vars == <<codegenvars, cgvars>>

\* ------------------------------------------------------------ GitService
\* A repository handle: base = tree at the cloned head, hist = commits made
\* through this handle (oldest first), wt = worktree/index, branches = local
\* branch references created through the handle (name -> commit number).
NewGitService(tree) ==
  [base |-> tree, hist |-> <<>>, wt |-> tree, branches |-> <<>>]

\* hash of HEAD: 0 is the cloned head, n the n-th commit of this handle
RepoHeadHash(r) == Len(r.hist)

HeadTree(r) == IF r.hist = <<>> THEN r.base ELSE r.hist[Len(r.hist)].tree

ListFiles(r) == {f \in Files : r.wt[f] # NoFile}

\* ReadFile fails (is not in the domain) for a file that does not exist
ReadFile(r, f) == r.wt[f]
Readable(r, f) == r.wt[f] # NoFile

\* WriteFile writes the content and stages the file
WriteFile(r, f, c) == [r EXCEPT !.wt[f] = c]

\* variant: the status always shows a change
IsClean_never(r) == FALSE
IsClean(r) == r.wt = HeadTree(r)

\* the hash Commit returns: HEAD's when the worktree is clean (the zero hash
\* when there is no HEAD), the new commit's otherwise
CommitHash(r, message) ==
  IF IsClean(r) THEN RepoHeadHash(r) ELSE RepoHeadHash(r) + 1

\* variant: a commit object is created also on a clean worktree
Commit_always(r, message) ==
  [r EXCEPT !.hist = Append(@, [msg |-> message, tree |-> r.wt])]
\* Commit: a clean worktree is a no-op returning the head hash
Commit(r, message) ==
  IF IsClean(r) THEN r
  ELSE [r EXCEPT !.hist = Append(@, [msg |-> message, tree |-> r.wt])]

BranchExists(r, name) == \E i \in 1..Len(r.branches) : r.branches[i].name = name

\* variant: the reference points at the cloned head
CreateBranch_atClonedHead(r, name) ==
  [r EXCEPT !.branches = Append(@, [name |-> name, target |-> 0])]
CreateBranch(r, name) ==
  [r EXCEPT !.branches = Append(@, [name |-> name, target |-> RepoHeadHash(r)])]

\* --------------------------------------------------------- GitActivities
\* variant: an existing entry is kept
RegisterGitServiceForWorkflow_keepFirst(m, id, service) ==
  [k \in DOMAIN m \cup {id} |-> IF k \in DOMAIN m THEN m[k] ELSE service]
\* ga.gitServiceMap[workflowID] = service
RegisterGitServiceForWorkflow(m, id, service) ==
  [k \in DOMAIN m \cup {id} |-> IF k = id THEN service ELSE m[k]]

\* variant: the whole map is emptied
CleanupGitServiceForWorkflow_clear(m, id) == [k \in {} |-> m[k]]
\* delete(ga.gitServiceMap, workflowID)
CleanupGitServiceForWorkflow(m, id) ==
  [k \in DOMAIN m \ {id} |-> m[k]]

\* variant: the lookup always finds a service
HasService_always(m, id) == TRUE
\* getServiceForWorkflow: ok iff the key is present
HasService(m, id) == id \in DOMAIN m
getServiceForWorkflow(m, id) == m[id]

EmptyMap == [k \in {} |-> 0]

\* write every file of a set of changes (order is irrelevant for the result)
RECURSIVE WriteAll(_, _, _)
WriteAll(r, changes, todo) ==
  IF todo = {} THEN r
  ELSE LET f == CHOOSE x \in todo : TRUE
       IN WriteAll(WriteFile(r, f, changes[f]), changes, todo \ {f})

\* steps whose commits are in the history of a handle
CommittedSteps(r) == {r.hist[i].msg : i \in 1..Len(r.hist)}

\* ------------------------------------------------------- CodeGenWorkflow
\* values of the credential variables of the environment ("" = not set)
Usernames == {"", "user"}
Passwords == {"", "pat"}

\* variant: one credential is enough
HasCreds_either(u, p) == u # "" \/ p # ""
\* gitUsername != "" && gitPassword != ""
HasCreds(u, p) == u # "" /\ p # ""

\* no access to the map has finished yet
NoAccess == [kind |-> "none", id |-> "", h |-> 0, raced |-> FALSE,
             outcome |-> "ok", before |-> EmptyMap, found |-> FALSE,
             gone |-> {}]

\* the session ids in use: the run of this model and another one
SessionIDs == {WorkflowID, "codegen-2"}

\* no git activity is followed statement by statement
NoInvocation ==
  [pc |-> "idle", name |-> "", worker |-> 0, changes |-> <<>>, todo |-> {},
   ret |-> "", hash |-> 0, start |-> <<>>, runs |-> 0, last |-> <<>>]

\* the last step was not a status query
NoPage == [id |-> "", status |-> "", polling |-> FALSE, text |-> ""]

\* no statement has run on the table yet
NoInput == [WorkflowID |-> "", Prompt |-> "", Plan |-> "", StepOutputs |-> "",
            FinalResult |-> "", Status |-> "", ErrorDetails |-> ""]

NoRet == [status |-> "running", err |-> "", step |-> 0, msg |-> "",
          branch |-> "", cause |-> "", attempts |-> 0]

\* a run of CodeGenWorkflow: nothing of CodeGenerationWorkflow is started
CodeGenerationIdle ==
  /\ cgPc = "idle"
  /\ cgAttempt = 1
  /\ cgCancelled = FALSE
  /\ currentStatus = ""
  /\ planningErr = "" /\ executionErr = "" /\ combineErr = "" /\ saveErr = ""
  /\ planJSON = "" /\ stepOutputsJSON = "" /\ finalResult = ""
  /\ planSteps = 0 /\ cgStepNum = 0
  /\ executionOutputs = <<>>
  /\ previousOutput = ""
  /\ cgRet = [status |-> "running", err |-> "", attempts |-> 0]
  /\ results = [k \in {} |-> 0]
  /\ cgCalls = <<>>
  /\ writes = <<>>
  /\ planResponse = ""
  /\ badPlans = 0
  /\ softFails = {}
  /\ storeOp = "none"
  /\ storeIn = NoInput
  /\ storeBefore = [k \in {} |-> 0]

InitCodeGen ==
  /\ pc = "InitGitActivity"
  /\ attempt = 1
  /\ cancelled = FALSE
  /\ gitUsername \in Usernames
  /\ gitPassword \in Passwords
  /\ creds = HasCreds(gitUsername, gitPassword)
  /\ plannedSteps = 0
  /\ stepNum = 0
  /\ allFiles = {}
  /\ relevantFiles = {}
  /\ readFileContent = EmptyMap
  /\ generatedFiles = EmptyMap
  /\ ret = NoRet
  /\ deferRegistered = FALSE
  /\ timeouts = 0
  /\ gitServiceMap = [w \in Workers |-> EmptyMap]
  /\ repos = <<>>
  /\ remoteTree \in Trees
  /\ calls = <<>>
  /\ listed = [i \in 1..MaxSteps |-> {}]
  /\ cleanupRan = FALSE
  /\ zeroSteps = {}
  /\ commitLog = {}
  /\ collided = "no"
  /\ staleOn = 0
  /\ regOps = {}
  /\ regCrashed = FALSE
  /\ regLast = NoAccess
  /\ page = NoPage
  /\ invocation = NoInvocation
  /\ CodeGenerationIdle

\* ---- outcome of an activity as seen by the workflow (RetryPolicy) ----
\* An activity whose attempt failed is retried until MaximumAttempts attempts
\* were made; the policy names no non-retryable error types and the activities
\* return plain errors, so every failure is retried.
Retryable(cause) == TRUE

\* variant: the defer statement placed after the planning activity
RegistersDefer_afterPlanning(p) == p = "PlanStepsActivity"
\* the defer statement follows the successful InitGitActivity
RegistersDefer(p) == p = "InitGitActivity"

\* the loop variables no longer exist once the workflow function returned
ResetLocals ==
  /\ allFiles' = {}
  /\ relevantFiles' = {}
  /\ readFileContent' = EmptyMap
  /\ generatedFiles' = EmptyMap

\* variant: the error message names the loop index instead of stepNum
ErrStep_index(n) == n - 1
\* the step an error message names (fmt.Errorf("... for step %d", stepNum))
ErrStep(n) == n

\* return nil, fmt.Errorf(kind ...): the deferred function (if any) runs next
ReturnError(kind, cause) ==
  /\ ret' = [status |-> "error", err |-> kind, step |-> ErrStep(stepNum),
             msg |-> "", branch |-> "", cause |-> cause,
             attempts |-> attempt]
  /\ pc' = IF deferRegistered THEN "CleanupGitActivity" ELSE "done"
  /\ attempt' = 1
  /\ ResetLocals
  /\ UNCHANGED deferRegistered

\* return &WorkflowOutput{...}, nil
ReturnOutput(message, cause) ==
  /\ ret' = [status |-> "ok", err |-> "", step |-> 0, msg |-> message,
             branch |-> branchName, cause |-> cause, attempts |-> attempt]
  /\ pc' = "CleanupGitActivity"
  /\ attempt' = 1
  /\ ResetLocals
  /\ UNCHANGED deferRegistered

\* variant: a failed push returned as the workflow's error
PushFailureIsOutput_never(p) == FALSE
\* the error branch of the push returns a WorkflowOutput and a nil error
PushFailureIsOutput(p) == p = "PushBranchActivity"

\* the attempt failed: retry, or surface the error to the workflow
AttemptFailed(kind, cause) ==
  /\ cause = "timeout" => timeouts < MaxTimeouts
  /\ timeouts' = IF cause = "timeout" THEN timeouts + 1 ELSE timeouts
  /\ IF attempt < MaximumAttempts /\ Retryable(cause)
     THEN /\ attempt' = attempt + 1
          /\ UNCHANGED <<pc, ret, deferRegistered, locals>>
     ELSE IF PushFailureIsOutput(pc)
          THEN ReturnOutput("failed to push", cause)
          ELSE ReturnError(kind, cause)

\* the attempt succeeded and the workflow moves on to activity `next`
Proceed(next) ==
  /\ pc' = next
  /\ attempt' = 1
  /\ deferRegistered' = (deferRegistered \/ RegistersDefer(pc))
  /\ UNCHANGED <<ret, timeouts>>

\* workflow.ExecuteActivity(ctx, pc, ...): the call is recorded when its first
\* attempt is dispatched, or when it returns the cancellation error before
\* any attempt returned
Invoke ==
  calls' = IF attempt = 1 THEN Append(calls, <<pc, stepNum>>) ELSE calls

ErrKind(p) ==
  CASE p = "InitGitActivity" -> "git initialization failed"
    [] p = "PlanStepsActivity" -> "planning failed"
    [] p = "ListFilesGitActivity" -> "failed to list files for step"
    [] p = "EvaluateFilesActivity" -> "evaluation failed for step"
    [] p = "ReadFilesGitActivity" -> "failed to read files for step"
    [] p = "GenerateCodeActivity" -> "code generation failed for step"
    [] p = "WriteFilesAndCommitActivity" -> "failed to apply changes for step"
    [] p = "CreateBranchActivity" -> "failed to create branch"
    [] OTHER -> "push failed"

Running == pc \notin {"idle", "CleanupGitActivity", "done"} /\ ~cancelled

\* ---- InitGitActivity on worker w ----
\* outcome "ok": cloned and registered; "timeout": cloned and registered, but
\* the result reached the workflow too late; "err": NewGitService failed.
InitGitActivity(w, outcome) ==
  /\ Running /\ pc = "InitGitActivity"
  /\ Invoke
  /\ IF outcome = "err"
     THEN /\ UNCHANGED gitvars
          /\ AttemptFailed(ErrKind(pc), "transient")
     ELSE /\ repos' = Append(repos, NewGitService(remoteTree))
          /\ gitServiceMap' = [gitServiceMap EXCEPT ![w] =
               RegisterGitServiceForWorkflow(@, WorkflowID, Len(repos) + 1)]
          /\ UNCHANGED remoteTree
          /\ IF outcome = "ok"
             THEN Proceed("PlanStepsActivity") /\ UNCHANGED locals
             ELSE AttemptFailed(ErrKind(pc), "timeout")
  /\ UNCHANGED <<cancelled, env, plannedSteps, stepNum, listed, hist>>
  /\ UNCHANGED <<concvars, regvars, page, invocation, cgvars>>

\* ---- CleanupGitActivity on worker w (the deferred function) ----
CleanupGitActivity(w) ==
  /\ pc = "CleanupGitActivity" /\ ~cancelled
  /\ Invoke
  /\ gitServiceMap' = [gitServiceMap EXCEPT ![w] =
       CleanupGitServiceForWorkflow(@, WorkflowID)]
  /\ cleanupRan' = TRUE
  /\ pc' = "done"
  /\ UNCHANGED <<attempt, ret, deferRegistered, timeouts, locals, cancelled,
                 env, plannedSteps, stepNum, repos, remoteTree, listed,
                 zeroSteps, commitLog, collided>>
  /\ UNCHANGED <<concvars, regvars, page, invocation, cgvars>>

\* deferCtx := ctx: on a cancelled context ExecuteActivity(...).Get returns
\* the cancellation error at once and the activity is never dispatched
CleanupCanceled ==
  /\ pc = "CleanupGitActivity" /\ cancelled
  /\ Invoke
  /\ pc' = "done"
  /\ UNCHANGED <<attempt, ret, deferRegistered, timeouts, locals, cancelled,
                 env, plannedSteps, stepNum, gitvars, listed, hist>>
  /\ UNCHANGED <<concvars, regvars, page, invocation, cgvars>>

\* ---- the workflow context is cancelled (external request) ----
\* A request that arrives once the workflow function has returned (the
\* deferred cleanup is already dispatched) has no effect on the run.
Cancel ==
  /\ pc \notin {"idle", "CleanupGitActivity", "done"} /\ ~cancelled
  /\ cancelled' = TRUE
  /\ UNCHANGED <<ctlvars, locals, env, plannedSteps, stepNum, gitvars,
                 obsvars>>
  /\ UNCHANGED <<concvars, regvars, page, invocation, cgvars>>

\* ExecuteActivity(ctx, ...).Get(ctx, ...) returns the cancellation error:
\* every activity's error branch is taken (PushBranch: output, nil error)
ActivityCanceled ==
  /\ cancelled /\ pc \notin {"idle", "CleanupGitActivity", "done"}
  /\ Invoke
  /\ IF PushFailureIsOutput(pc) THEN ReturnOutput("failed to push", "canceled")
     ELSE ReturnError(ErrKind(pc), "canceled")
  /\ UNCHANGED <<timeouts, cancelled, env, plannedSteps, stepNum, gitvars,
                 listed, hist>>
  /\ UNCHANGED <<concvars, regvars, page, invocation, cgvars>>

\* ---- PlanStepsActivity: n = number of steps parsed from the response ----
PlanStepsActivity(outcome, n) ==
  /\ Running /\ pc = "PlanStepsActivity"
  /\ Invoke
  /\ IF outcome = "err"
     THEN /\ AttemptFailed(ErrKind(pc), "transient")
          /\ UNCHANGED <<plannedSteps, stepNum>>
     ELSE IF n = 0
     THEN \* LLMService.PlanSteps: an empty response / no step parsed
          /\ AttemptFailed(ErrKind(pc), "emptyplan")
          /\ UNCHANGED <<plannedSteps, stepNum>>
     ELSE /\ plannedSteps' = n
          /\ IF plannedSteps' = 0
             THEN /\ ReturnError("planning resulted in zero steps", "zerosteps")
                  /\ UNCHANGED <<stepNum, timeouts>>
             ELSE /\ stepNum' = 1
                  /\ Proceed("ListFilesGitActivity")
                  /\ UNCHANGED locals
  /\ UNCHANGED <<cancelled, env, gitvars, listed, hist>>
  /\ UNCHANGED <<concvars, regvars, page, invocation, cgvars>>

\* ---- ListFilesGitActivity on worker w ----
ListFilesGitActivity(w, outcome) ==
  /\ Running /\ pc = "ListFilesGitActivity"
  /\ Invoke
  /\ IF ~HasService(gitServiceMap[w], WorkflowID)
     THEN /\ AttemptFailed(ErrKind(pc), "notfound")
          /\ UNCHANGED listed
     ELSE IF outcome # "ok"
     THEN /\ AttemptFailed(ErrKind(pc), outcome)
          /\ UNCHANGED listed
     ELSE LET r == repos[getServiceForWorkflow(gitServiceMap[w], WorkflowID)]
          IN /\ allFiles' = ListFiles(r)
             /\ listed' = [listed EXCEPT ![stepNum] = CommittedSteps(r)]
             /\ Proceed("EvaluateFilesActivity")
             /\ UNCHANGED <<relevantFiles, readFileContent, generatedFiles>>
  /\ UNCHANGED <<cancelled, env, plannedSteps, stepNum, gitvars, hist>>
  /\ UNCHANGED <<concvars, regvars, page, invocation, cgvars>>

\* ---- EvaluateFilesActivity: suggested = the paths the model answered ----
\* The reply is split at the commas and every item is trimmed; `suggested`
\* is the set of trimmed items. A reply that is empty or the word NONE after
\* trimming means no file.
Suggestable == Files \cup {"ghost.go", "", "NONE"}

\* variant: the items are returned as they are
EvaluateRelevantFiles_unfiltered(suggested, all) == suggested
EvaluateRelevantFiles(suggested, all) ==
  IF suggested \subseteq {"NONE"} THEN {}
  ELSE {f \in suggested : f \in all /\ f # ""}

EvaluateFilesActivity(outcome, suggested) ==
  /\ Running /\ pc = "EvaluateFilesActivity"
  /\ Invoke
  /\ IF outcome # "ok"
     THEN AttemptFailed(ErrKind(pc), "transient")
     ELSE /\ relevantFiles' = EvaluateRelevantFiles(suggested, allFiles)
          /\ Proceed(IF relevantFiles' # {} THEN "ReadFilesGitActivity" ELSE "GenerateCodeActivity")
          /\ UNCHANGED <<allFiles, readFileContent, generatedFiles>>
  /\ UNCHANGED <<cancelled, env, plannedSteps, stepNum, gitvars, listed, hist>>
  /\ UNCHANGED <<concvars, regvars, page, invocation, cgvars>>

\* ---- ReadFilesGitActivity on worker w: unreadable files are skipped ----
\* variant: every requested path gets a key
ReadFiles_everyPath(r, paths) ==
  [f \in paths |-> ReadFile(r, f)]
ReadFiles(r, paths) ==
  [f \in {p \in paths : Readable(r, p)} |-> ReadFile(r, f)]

ReadFilesGitActivity(w, outcome) ==
  /\ Running /\ pc = "ReadFilesGitActivity"
  /\ Invoke
  /\ IF ~HasService(gitServiceMap[w], WorkflowID)
     THEN AttemptFailed(ErrKind(pc), "notfound")
     ELSE IF outcome # "ok"
     THEN AttemptFailed(ErrKind(pc), outcome)
     ELSE LET r == repos[getServiceForWorkflow(gitServiceMap[w], WorkflowID)]
          IN /\ readFileContent' = ReadFiles(r, relevantFiles)
             /\ Proceed("GenerateCodeActivity")
             /\ UNCHANGED <<allFiles, relevantFiles, generatedFiles>>
  /\ UNCHANGED <<cancelled, env, plannedSteps, stepNum, gitvars, listed, hist>>
  /\ UNCHANGED <<concvars, regvars, page, invocation, cgvars>>

\* end of one loop iteration: next step, or leave the loop
ContinueLoop ==
  /\ ResetLocals
  /\ IF stepNum < plannedSteps
     THEN /\ stepNum' = stepNum + 1
          /\ Proceed("ListFilesGitActivity")
     ELSE /\ UNCHANGED stepNum
          /\ Proceed("CreateBranchActivity")

\* ---- GenerateCodeActivity: changes = file -> new content ----
ChangeSets == UNION {[S -> Contents] : S \in SUBSET Files}

\* variant: the zero-changes test removed from the loop
NoChanges_never(changes) == FALSE
\* len(genCodeResult.GeneratedFiles) == 0
NoChanges(changes) == DOMAIN changes = {}

GenerateCodeActivity(outcome, changes) ==
  /\ Running /\ pc = "GenerateCodeActivity"
  /\ Invoke
  /\ zeroSteps' = IF outcome = "ok" /\ DOMAIN changes = {}
                  THEN zeroSteps \cup {stepNum} ELSE zeroSteps
  /\ IF outcome # "ok"
     THEN /\ AttemptFailed(ErrKind(pc), "transient")
          /\ UNCHANGED stepNum
     ELSE IF NoChanges(changes)
     THEN ContinueLoop
     ELSE /\ generatedFiles' = changes
          /\ Proceed("WriteFilesAndCommitActivity")
          /\ UNCHANGED <<stepNum, allFiles, relevantFiles, readFileContent>>
  /\ UNCHANGED <<cancelled, env, plannedSteps, gitvars, listed, cleanupRan,
                 commitLog, collided>>
  /\ UNCHANGED <<concvars, regvars, page, invocation, cgvars>>

\* ---- WriteFilesAndCommitActivity on worker w ----
\* the activity body when no write fails
\* An attempt of a git activity on worker w works on the session's handle.
\* The activities never look at their context, so an attempt that exceeded
\* StartToCloseTimeout goes on working in its goroutine while the retry
\* policy starts the next attempt.
Operates(w, outcome) ==
  IF ~HasService(gitServiceMap[w], WorkflowID) THEN UNCHANGED concvars
  ELSE LET h == getServiceForWorkflow(gitServiceMap[w], WorkflowID)
           timedOut ==
             /\ outcome = "timeout"
             /\ ~(pc = "CreateBranchActivity"
                   /\ BranchExists(repos[h], branchName))
       IN staleOn' = IF timedOut THEN h ELSE staleOn

\* the goroutine of the timed-out attempt returns
StaleAttemptEnds ==
  /\ staleOn # 0
  /\ staleOn' = 0
  /\ UNCHANGED <<wfvars, gitvars, obsvars, regvars, page, invocation, cgvars>>

WriteFilesAndCommit(r, changes, message) ==
  IF DOMAIN changes = {} THEN r
  ELSE Commit(WriteAll(r, changes, DOMAIN changes), message)

\* outcome "ok"/"timeout": all files written and staged, then Commit;
\* outcome "err": the files of `written` were written and staged, then a
\* write, stage or the commit failed
WriteFilesAndCommitActivity(w, outcome, written) ==
  /\ Running /\ pc = "WriteFilesAndCommitActivity"
  /\ Invoke
  /\ IF ~HasService(gitServiceMap[w], WorkflowID)
     THEN /\ AttemptFailed(ErrKind(pc), "notfound")
          /\ UNCHANGED <<repos, stepNum>>
     ELSE LET h == getServiceForWorkflow(gitServiceMap[w], WorkflowID)
          IN IF outcome = "err"
             THEN /\ written \subseteq DOMAIN generatedFiles
                  /\ repos' = [repos EXCEPT ![h] =
                                 WriteAll(@, generatedFiles, written)]
                  /\ AttemptFailed(ErrKind(pc), "transient")
                  /\ UNCHANGED stepNum
             ELSE /\ written = DOMAIN generatedFiles
                  /\ repos' = [repos EXCEPT ![h] =
                                 WriteFilesAndCommit(@, generatedFiles, stepNum)]
                  /\ IF outcome = "ok" THEN ContinueLoop
                     ELSE /\ AttemptFailed(ErrKind(pc), "timeout")
                          /\ UNCHANGED stepNum
  /\ commitLog' = commitLog \cup
       {<<h, stepNum>> : h \in {i \in 1..Len(repos) :
                                  Len(repos'[i].hist) > Len(repos[i].hist)}}
  /\ UNCHANGED <<cancelled, env, plannedSteps, gitServiceMap, remoteTree,
                 listed, cleanupRan, zeroSteps, collided>>
  /\ Operates(w, outcome)
  /\ UNCHANGED <<regvars, page, invocation, cgvars>>

\* ---- CreateBranchActivity on worker w ----
CreateBranchActivity(w, outcome) ==
  /\ Running /\ pc = "CreateBranchActivity"
  /\ Invoke
  /\ IF ~HasService(gitServiceMap[w], WorkflowID)
     THEN /\ AttemptFailed(ErrKind(pc), "notfound")
          /\ UNCHANGED repos
     ELSE LET h == getServiceForWorkflow(gitServiceMap[w], WorkflowID)
          IN IF BranchExists(repos[h], branchName)
             THEN /\ AttemptFailed(ErrKind(pc), "collision")
                  /\ UNCHANGED repos
             ELSE IF outcome = "err"
             THEN /\ AttemptFailed(ErrKind(pc), "transient")
                  /\ UNCHANGED repos
             ELSE /\ repos' = [repos EXCEPT ![h] = CreateBranch(@, branchName)]
                  /\ IF outcome = "timeout"
                     THEN AttemptFailed(ErrKind(pc), "timeout")
                     ELSE IF creds
                     THEN Proceed("PushBranchActivity") /\ UNCHANGED locals
                     ELSE ReturnOutput("push skipped", "") /\ UNCHANGED timeouts
  /\ collided' =
       IF /\ HasService(gitServiceMap[w], WorkflowID)
          /\ BranchExists(repos[getServiceForWorkflow(gitServiceMap[w],
                                                      WorkflowID)], branchName)
       THEN IF repos' = repos /\ collided # "changed" THEN "kept"
            ELSE "changed"
       ELSE collided
  /\ UNCHANGED <<cancelled, env, plannedSteps, stepNum, gitServiceMap,
                 remoteTree, listed, cleanupRan, zeroSteps, commitLog>>
  /\ Operates(w, outcome)
  /\ UNCHANGED <<regvars, page, invocation, cgvars>>

\* ---- PushBranchActivity on worker w (only with credentials) ----
PushBranchActivity(w, outcome) ==
  /\ Running /\ pc = "PushBranchActivity"
  /\ Invoke
  /\ IF ~HasService(gitServiceMap[w], WorkflowID)
     THEN AttemptFailed(ErrKind(pc), "notfound")
     ELSE IF outcome # "ok"
     THEN AttemptFailed(ErrKind(pc), "transient")
     ELSE ReturnOutput("pushed", "") /\ UNCHANGED timeouts
  /\ UNCHANGED <<cancelled, env, plannedSteps, stepNum, gitvars, listed, hist>>
  /\ UNCHANGED <<concvars, regvars, page, invocation, cgvars>>

\* ------------------------------------------------ CodeGenerationWorkflow
\* RetryPolicy.MaximumAttempts of the agent activities / the local activities
AgentMaximumAttempts == 3
LocalMaximumAttempts == 5
NonRetryableErrorTypes ==
  {"APIKeyError", "InvalidPlanFormat", "EmptyPlan", "InternalJSONError"}

\* variant: a retry policy without NonRetryableErrorTypes
IsRetryable_all(t) == TRUE
\* an attempt that failed with error type t is retried unless t is listed
IsRetryable(t) == t \notin NonRetryableErrorTypes

Prompt == "prompt"
\* what the execution agent and the combine agent may answer (never empty)
Outputs == {"o1", "o2"}
FinalResults == {"final"}

\* encoding/json of a list of strings and of a plan of n steps
RECURSIVE Join(_)
Join(s) ==
  IF s = <<>> THEN ""
  ELSE IF Len(s) = 1 THEN s[1] ELSE s[1] \o "," \o Join(Tail(s))
Marshal(s) == "[" \o Join(s) \o "]"
PlanText(n) == Marshal([i \in 1..n |-> "s" \o ToString(i)])

\* json.Unmarshal(planJSON, &planSteps): fails on anything but a JSON list;
\* PlanLen is len(planSteps)
ValidPlan(text) == \E n \in 0..MaxSteps : text = PlanText(n)
\* variant: an empty list counted as a plan of one step
PlanLen_atLeastOne(text) ==
  IF text = PlanText(0) THEN 1
  ELSE CHOOSE n \in 0..MaxSteps : text = PlanText(n)
PlanLen(text) == CHOOSE n \in 0..MaxSteps : text = PlanText(n)

\* what the planning model may answer: no JSON, an empty list, a plan
PlanResponses == {"garbage"} \cup {PlanText(n) : n \in 0..MaxSteps}

\* variant: the steps numbered from the last one down
StepStatus_countdown(n) == "EXECUTING_STEP_" \o ToString(MaxSteps + 1 - n)
\* fmt.Sprintf("EXECUTING_STEP_%d", stepNum)
StepStatus(n) == "EXECUTING_STEP_" \o ToString(n)

\* ---- table results ----
\* a column that holds SQL NULL (no text of the program equals it)
NULL == "NULL"
\* variant: a value equal to the stored one clears the column
Coalesce_clearEqual(a, b) == IF a = b THEN NULL ELSE a
\* COALESCE(a, b): the first argument that is not NULL
Coalesce(a, b) == IF a # NULL THEN a ELSE b

\* INSERT OR IGNORE INTO results (workflow_id, prompt, status, ...)
InsertOrIgnore(table, id, prompt) ==
  IF id \in DOMAIN table THEN table
  ELSE [k \in DOMAIN table \cup {id} |->
          IF k = id
          THEN [prompt |-> prompt, plan |-> NULL, step_outputs |-> NULL,
                final_result |-> NULL, status |-> "PENDING",
                error_details |-> NULL]
          ELSE table[k]]

\* INSERT ... ON CONFLICT(workflow_id) DO UPDATE SET ... : the values bound to
\* the statement are Go strings, so excluded.* is never NULL
Upsert(table, in) ==
  [k \in DOMAIN table \cup {in.WorkflowID} |->
     IF k # in.WorkflowID THEN table[k]
     ELSE IF k \notin DOMAIN table
     THEN [prompt |-> in.Prompt, plan |-> in.Plan,
           step_outputs |-> in.StepOutputs, final_result |-> in.FinalResult,
           status |-> in.Status, error_details |-> in.ErrorDetails]
     ELSE [prompt |-> Coalesce(in.Prompt, table[k].prompt),
           plan |-> Coalesce(in.Plan, table[k].plan),
           step_outputs |-> Coalesce(in.StepOutputs, table[k].step_outputs),
           final_result |-> Coalesce(in.FinalResult, table[k].final_result),
           status |-> in.Status, error_details |-> in.ErrorDetails]]

ActivityInput(prompt, plan, stepOutputs, final, status, details) ==
  [WorkflowID |-> WorkflowID, Prompt |-> prompt, Plan |-> plan,
   StepOutputs |-> stepOutputs, FinalResult |-> final, Status |-> status,
   ErrorDetails |-> details]

\* ---- the deferred function: the final status and its details ----
\* variant: only the execution error is reported
primaryError_executionOnly == executionErr
primaryError ==
  IF executionErr # "" THEN executionErr
  ELSE IF combineErr # "" THEN combineErr ELSE planningErr

finalStatus ==
  IF primaryError # "" THEN "FAILED"
  ELSE IF saveErr # "" THEN "FAILED" ELSE "COMPLETED"

finalErrorDetails ==
  IF primaryError # "" THEN primaryError
  ELSE IF saveErr # "" THEN "final state save failed" ELSE ""

\* the positions at which a local activity is in flight
LocalSites ==
  {"CreatePending", "SavePlanning", "SavePlan", "SaveStep", "SaveCombining",
   "FinalSave"}

\* the ActivityInput of the SaveResultActivity call at the current position
saveInput ==
  IF cgPc = "SavePlanning"
  THEN ActivityInput(Prompt, "", "", "", currentStatus, "")
  ELSE IF cgPc = "SavePlan"
  THEN ActivityInput("", planJSON, "", "", currentStatus, "")
  ELSE IF cgPc = "FinalSave"
  THEN ActivityInput(Prompt, planJSON, stepOutputsJSON, finalResult,
                     finalStatus, finalErrorDetails)
  ELSE ActivityInput("", "", "", "", currentStatus, "")

\* workflow.ExecuteActivity / ExecuteLocalActivity: recorded when the first
\* attempt is dispatched
CgInvoke(name, arg) ==
  cgCalls' = IF cgAttempt = 1
             THEN Append(cgCalls, [name |-> name, step |-> cgStepNum,
                                   arg |-> arg])
             ELSE cgCalls

\* return "", err / return "Workflow completed successfully", nil: the
\* deferred function runs next
CgReturn(status, err) ==
  /\ cgRet' = [status |-> status, err |-> err, attempts |-> cgAttempt]
  /\ cgPc' = "FinalSave"
  /\ cgAttempt' = 1
  /\ UNCHANGED currentStatus

\* variant: a step starts with its agent activity
StepEntry_workFirst == "Execution"
\* the first statement of the loop body after currentStatus is set: the save
StepEntry == "SaveStep"

\* the workflow code between the plan save and the first step
ParsePlan ==
  IF ~ValidPlan(planJSON)
  THEN /\ planningErr' = "failed to parse plan JSON"
       /\ CgReturn("error", planningErr')
       /\ UNCHANGED <<executionErr, combineErr, cgData>>
  ELSE IF PlanLen(planJSON) = 0
  THEN /\ planningErr' = "generated plan was empty"
       /\ CgReturn("error", planningErr')
       /\ UNCHANGED <<executionErr, combineErr, cgData>>
  ELSE /\ planSteps' = PlanLen(planJSON)
       /\ executionOutputs' = <<>>
       /\ previousOutput' = ""
       /\ cgStepNum' = 1
       /\ currentStatus' = StepStatus(1)
       /\ cgPc' = StepEntry
       /\ cgAttempt' = 1
       /\ UNCHANGED <<cgRet, pipeErrs, planJSON, stepOutputsJSON, finalResult>>

\* the workflow code that follows a local activity, whatever its result
\* (saveErr is set by the caller)
AfterLocal ==
  IF cgPc = "CreatePending"
  THEN /\ currentStatus' = "PLANNING"
       /\ cgPc' = "SavePlanning"
       /\ cgAttempt' = 1
       /\ UNCHANGED <<cgRet, pipeErrs, cgData>>
  ELSE IF cgPc = "SavePlanning"
  THEN /\ cgPc' = "Planning"
       /\ cgAttempt' = 1
       /\ UNCHANGED <<cgRet, currentStatus, pipeErrs, cgData>>
  ELSE IF cgPc = "SavePlan"
  THEN ParsePlan
  ELSE IF cgPc = "SaveStep"
  THEN /\ cgPc' = "Execution"
       /\ cgAttempt' = 1
       /\ UNCHANGED <<cgRet, currentStatus, pipeErrs, cgData>>
  ELSE IF cgPc = "SaveCombining"
  THEN /\ stepOutputsJSON' = Marshal(executionOutputs)
       /\ cgPc' = "Combine"
       /\ cgAttempt' = 1
       /\ UNCHANGED <<cgRet, currentStatus, pipeErrs, planJSON, finalResult,
                      cgLoop>>
  ELSE /\ cgPc' = "done"
       /\ cgAttempt' = 1
       /\ UNCHANGED <<cgRet, currentStatus, pipeErrs, cgData>>

\* variant: the error of a failed save is kept
Logged_kept(e) == e
\* logger.Warn / logger.Error of the error, then saveErr = nil
Logged(e) == ""

\* saveErr = ExecuteLocalActivity(...).Get(...), then the reset; the final
\* save assigns finalSaveAttemptErr and leaves saveErr alone
SaveErrIs(e) ==
  saveErr' = IF cgPc = "FinalSave" THEN saveErr
             ELSE IF e = "" THEN "" ELSE Logged(e)

\* a failed attempt of a local activity: retried up to the policy's maximum
LocalAttemptFailed ==
  IF cgAttempt < LocalMaximumAttempts
  THEN /\ cgAttempt' = cgAttempt + 1
       /\ UNCHANGED <<cgPc, cgRet, currentStatus, cgErrs, cgData, softFails>>
  ELSE /\ AfterLocal
       /\ SaveErrIs("failed")
       /\ softFails' = IF cgPc = "FinalSave" THEN softFails
                       ELSE softFails \cup {cgPc}

\* ---- CreatePendingRecordActivity (local activity) ----
CreatePendingRecordActivity(outcome) ==
  /\ cgPc = "CreatePending" /\ ~cgCancelled
  /\ CgInvoke("CreatePendingRecordActivity", "")
  /\ IF outcome = "ok"
     THEN /\ results' = InsertOrIgnore(results, WorkflowID, Prompt)
          /\ storeOp' = "create"
          /\ storeIn' = ActivityInput(Prompt, "", "", "", "PENDING", "")
          /\ storeBefore' = results
          /\ writes' = IF WorkflowID \in DOMAIN results THEN writes
                       ELSE Append(writes, "PENDING")
          /\ AfterLocal
          /\ SaveErrIs("")
          /\ UNCHANGED softFails
     ELSE /\ UNCHANGED <<results, writes, storeHist>>
          /\ LocalAttemptFailed
  /\ UNCHANGED <<cgCancelled, planResponse, badPlans, codegenvars>>

\* ---- SaveResultActivity (local activity), at every call site; the final
\* save runs on a disconnected context ----
SaveResultActivity(outcome) ==
  /\ cgPc \in LocalSites \ {"CreatePending"}
  /\ cgPc = "FinalSave" \/ ~cgCancelled
  /\ CgInvoke("SaveResultActivity", saveInput.Status)
  /\ IF outcome = "ok"
     THEN /\ results' = Upsert(results, saveInput)
          /\ storeOp' = "save"
          /\ storeIn' = saveInput
          /\ storeBefore' = results
          /\ writes' = Append(writes, saveInput.Status)
          /\ AfterLocal
          /\ SaveErrIs("")
          /\ UNCHANGED softFails
     ELSE /\ UNCHANGED <<results, writes, storeHist>>
          /\ LocalAttemptFailed
  /\ UNCHANGED <<cgCancelled, planResponse, badPlans, codegenvars>>

\* a local activity on the cancelled context is not run; its error is logged
LocalActivityCanceled ==
  /\ cgCancelled /\ cgPc \in LocalSites \ {"FinalSave"}
  /\ IF cgPc = "CreatePending"
     THEN CgInvoke("CreatePendingRecordActivity", "")
     ELSE CgInvoke("SaveResultActivity", saveInput.Status)
  /\ AfterLocal
  /\ SaveErrIs("canceled")
  /\ softFails' = softFails \cup {cgPc}
  /\ UNCHANGED <<cgCancelled, results, writes, storeHist, planResponse,
                 badPlans, codegenvars>>

\* ---- agent activities ----
\* error type of an attempt that called the model: the API key is missing,
\* or the API request failed / answered nothing
CallError(outcome) ==
  IF outcome = "apikey" THEN "APIKeyError"
  ELSE IF outcome = "err" THEN "APIError" ELSE ""

\* error type of a PlanningAgentActivity attempt ("" = success)
PlanningError(outcome, response) ==
  IF CallError(outcome) # "" THEN CallError(outcome)
  ELSE IF ~ValidPlan(response) THEN "InvalidPlanFormat"
  ELSE IF PlanLen(response) = 0 THEN "EmptyPlan" ELSE ""

\* the attempt failed with error type t and another attempt follows
\* variant: the agent activities retried under the local activities' policy
AgentRetries_asLocal(t) == cgAttempt < LocalMaximumAttempts /\ IsRetryable(t)
AgentRetries(t) == cgAttempt < AgentMaximumAttempts /\ IsRetryable(t)

AgentRetry ==
  /\ cgAttempt' = cgAttempt + 1
  /\ UNCHANGED <<cgPc, cgRet, currentStatus, cgErrs, cgData>>

PlanningAgentActivity(outcome, response) ==
  /\ cgPc = "Planning" /\ ~cgCancelled
  /\ CgInvoke("PlanningAgentActivity", "")
  /\ LET t == PlanningError(outcome, response)
     IN IF t = ""
        THEN /\ planJSON' = response
             /\ cgPc' = "SavePlan"
             /\ cgAttempt' = 1
             /\ UNCHANGED <<cgRet, currentStatus, cgErrs, stepOutputsJSON,
                            finalResult, cgLoop>>
        ELSE IF AgentRetries(t) THEN AgentRetry
        ELSE /\ planningErr' = t
             /\ CgReturn("error", t)
             /\ UNCHANGED <<executionErr, combineErr, saveErr, cgData>>
  /\ planResponse' = IF CallError(outcome) = "" THEN response
                     ELSE planResponse
  /\ badPlans' = IF PlanningError(outcome, response)
                      \in {"InvalidPlanFormat", "EmptyPlan"}
                 THEN badPlans + 1 ELSE badPlans
  /\ UNCHANGED <<cgCancelled, results, writes, storeHist, softFails,
                 codegenvars>>

\* fmt.Errorf("step %d execution failed: %w", stepNum, err)
StepFailed(n, t) == "step " \o ToString(n) \o " execution failed: " \o t

\* variant: the outputs so far are marshalled after every step
StepOutputsAfterStep_marshalled(outputs) == Marshal(outputs)
\* stepOutputsJSON after a step: the append to executionOutputs does not
\* touch it (the intermediate save is commented out)
StepOutputsAfterStep(outputs) == stepOutputsJSON

ExecutionAgentActivity(outcome, output) ==
  /\ cgPc = "Execution" /\ ~cgCancelled
  /\ CgInvoke("ExecutionAgentActivity", previousOutput)
  /\ LET t == CallError(outcome)
     IN IF t = ""
        THEN /\ executionOutputs' = Append(executionOutputs, output)
             /\ previousOutput' = output
             /\ IF cgStepNum < planSteps
                THEN /\ cgStepNum' = cgStepNum + 1
                     /\ currentStatus' = StepStatus(cgStepNum + 1)
                     /\ cgPc' = StepEntry
                ELSE /\ currentStatus' = "COMBINING"
                     /\ cgPc' = "SaveCombining"
                     /\ UNCHANGED cgStepNum
             /\ cgAttempt' = 1
             /\ stepOutputsJSON' = StepOutputsAfterStep(executionOutputs')
             /\ UNCHANGED <<cgRet, cgErrs, planJSON, finalResult, planSteps>>
        ELSE IF AgentRetries(t) THEN AgentRetry
        ELSE /\ executionErr' = StepFailed(cgStepNum, t)
             /\ CgReturn("error", executionErr')
             /\ UNCHANGED <<planningErr, combineErr, saveErr, cgData>>
  /\ UNCHANGED <<cgCancelled, results, writes, storeHist, planResponse,
                 badPlans, softFails,
                 codegenvars>>

\* json.Unmarshal(stepOutputsJSON, &stepOutputs) in CombineAgentActivity
OutputLists == UNION {[1..n -> Outputs] : n \in 0..MaxSteps}
ValidList(text) == \E l \in OutputLists : text = Marshal(l)

CombineAgentActivity(outcome, final) ==
  /\ cgPc = "Combine" /\ ~cgCancelled
  /\ CgInvoke("CombineAgentActivity", stepOutputsJSON)
  /\ LET t == IF outcome = "apikey" THEN "APIKeyError"
              ELSE IF ~ValidList(stepOutputsJSON) THEN "InternalJSONError"
              ELSE CallError(outcome)
     IN IF t = ""
        THEN /\ finalResult' = final
             /\ CgReturn("ok", "")
             /\ UNCHANGED <<cgErrs, planJSON, stepOutputsJSON, cgLoop>>
        ELSE IF AgentRetries(t) THEN AgentRetry
        ELSE /\ combineErr' = t
             /\ CgReturn("error", t)
             /\ UNCHANGED <<planningErr, executionErr, saveErr, cgData>>
  /\ UNCHANGED <<cgCancelled, results, writes, storeHist, planResponse,
                 badPlans, softFails,
                 codegenvars>>

\* ExecuteActivity(agentCtx, ...).Get returns the cancellation error
AgentActivityCanceled ==
  /\ cgCancelled /\ cgPc \in {"Planning", "Execution", "Combine"}
  /\ IF cgPc = "Planning"
     THEN /\ planningErr' = "canceled"
          /\ CgReturn("error", planningErr')
          /\ UNCHANGED <<executionErr, combineErr>>
     ELSE IF cgPc = "Execution"
     THEN /\ executionErr' = StepFailed(cgStepNum, "canceled")
          /\ CgReturn("error", executionErr')
          /\ UNCHANGED <<planningErr, combineErr>>
     ELSE /\ combineErr' = "canceled"
          /\ CgReturn("error", combineErr')
          /\ UNCHANGED <<planningErr, executionErr>>
  /\ CgInvoke(cgPc \o "AgentActivity",
              IF cgPc = "Execution" THEN previousOutput
              ELSE IF cgPc = "Combine" THEN stepOutputsJSON ELSE "")
  /\ UNCHANGED <<saveErr, cgData, cgCancelled, results, writes, storeHist,
                 planResponse, badPlans, softFails, codegenvars>>

\* ---- the workflow context is cancelled (external request) ----
CgCancel ==
  /\ cgPc \notin {"idle", "FinalSave", "done"} /\ ~cgCancelled
  /\ cgCancelled' = TRUE
  /\ UNCHANGED <<cgCtl, cgErrs, cgData, results, cgObs, storeHist,
                 codegenvars>>

\* ---- the workflow code panics: the deferred function recovers, logs and
\* panics again before it builds saveInput, so no final save is made ----
WorkflowPanic ==
  /\ cgPc \notin {"idle", "FinalSave", "done"}
  /\ cgRet' = [status |-> "panic", err |-> "Workflow panic",
               attempts |-> cgAttempt]
  /\ cgPc' = "done"
  /\ cgAttempt' = 1
  /\ UNCHANGED <<currentStatus, cgErrs, cgData, cgCancelled, results, cgObs,
                 storeHist, codegenvars>>

Outcomes == {"ok", "err", "timeout"}
AgentOutcomes == {"ok", "err", "apikey"}

\* nothing of CodeGenWorkflow is started
WorkflowIdle ==
  /\ pc = "idle"
  /\ attempt = 1
  /\ cancelled = FALSE
  /\ gitUsername = ""
  /\ gitPassword = ""
  /\ creds = FALSE
  /\ plannedSteps = 0
  /\ stepNum = 0
  /\ allFiles = {}
  /\ relevantFiles = {}
  /\ readFileContent = EmptyMap
  /\ generatedFiles = EmptyMap
  /\ ret = NoRet
  /\ deferRegistered = FALSE
  /\ timeouts = 0
  /\ remoteTree = [f \in Files |-> NoFile]
  /\ calls = <<>>
  /\ listed = [i \in 1..MaxSteps |-> {}]
  /\ cleanupRan = FALSE
  /\ zeroSteps = {}
  /\ commitLog = {}
  /\ collided = "no"
  /\ staleOn = 0
  /\ regOps = {}
  /\ regCrashed = FALSE
  /\ regLast = NoAccess
  /\ page = NoPage
  /\ invocation = NoInvocation

\* no session is registered and nothing was cloned
CodeGenIdle ==
  /\ WorkflowIdle
  /\ gitServiceMap = [w \in Workers |-> EmptyMap]
  /\ repos = <<>>

\* a run of CodeGenerationWorkflow
InitCodeGeneration ==
  /\ CodeGenIdle
  /\ cgPc = "CreatePending"
  /\ cgAttempt = 1
  /\ cgCancelled = FALSE
  /\ currentStatus = "DB_INIT"
  /\ planningErr = "" /\ executionErr = "" /\ combineErr = "" /\ saveErr = ""
  /\ planJSON = "" /\ stepOutputsJSON = "[]" /\ finalResult = ""
  /\ planSteps = 0 /\ cgStepNum = 0
  /\ executionOutputs = <<>>
  /\ previousOutput = ""
  /\ cgRet = [status |-> "running", err |-> "", attempts |-> 0]
  /\ results = [k \in {} |-> 0]
  /\ cgCalls = <<>>
  /\ writes = <<>>
  /\ planResponse = ""
  /\ badPlans = 0
  /\ softFails = {}
  /\ storeOp = "none"
  /\ storeIn = NoInput
  /\ storeBefore = [k \in {} |-> 0]

\* one run of one of the two workflows
Init == InitCodeGen \/ InitCodeGeneration

Next ==
  \/ \E w \in Workers, o \in Outcomes : InitGitActivity(w, o)
  \/ \E o \in {"ok", "err"}, n \in 0..MaxSteps : PlanStepsActivity(o, n)
  \/ \E w \in Workers, o \in {"ok", "timeout"} : ListFilesGitActivity(w, o)
  \/ \E o \in {"ok", "err"}, s \in SUBSET Suggestable :
       EvaluateFilesActivity(o, s)
  \/ \E w \in Workers, o \in {"ok", "timeout"} : ReadFilesGitActivity(w, o)
  \/ \E o \in {"ok", "err"}, c \in ChangeSets : GenerateCodeActivity(o, c)
  \/ \E w \in Workers, o \in Outcomes, s \in SUBSET Files :
       WriteFilesAndCommitActivity(w, o, s)
  \/ \E w \in Workers, o \in Outcomes : CreateBranchActivity(w, o)
  \/ \E w \in Workers, o \in {"ok", "err"} : PushBranchActivity(w, o)
  \/ \E w \in Workers : CleanupGitActivity(w)
  \/ CleanupCanceled
  \/ StaleAttemptEnds
  \/ Cancel
  \/ ActivityCanceled
  \/ \E o \in {"ok", "err"} : CreatePendingRecordActivity(o)
  \/ \E o \in {"ok", "err"} : SaveResultActivity(o)
  \/ LocalActivityCanceled
  \/ \E o \in AgentOutcomes, r \in PlanResponses : PlanningAgentActivity(o, r)
  \/ \E o \in AgentOutcomes, x \in Outputs : ExecutionAgentActivity(o, x)
  \/ \E o \in AgentOutcomes, x \in FinalResults : CombineAgentActivity(o, x)
  \/ AgentActivityCanceled
  \/ CgCancel
  \/ WorkflowPanic

Spec == Init /\ [][Next]_vars

\* every attempt returns or times out: some step of the run is always taken.
\* The runs start from one repository with a file and both credentials set.
LiveInit ==
  \/ /\ InitCodeGen
     /\ gitUsername # "" /\ gitPassword # ""
     /\ remoteTree = [f \in Files |-> "v1"]
  \/ InitCodeGeneration

LiveSpec == LiveInit /\ [][Next]_vars /\ WF_vars(Next)

\* ------------------------------------------- the table results on its own
\* SaveResultActivity and CreatePendingRecordActivity called with any
\* arguments, in any order, on a table that starts empty
StoreStatuses ==
  {"PENDING", "PLANNING", "EXECUTING_STEP_1", "COMBINING", "COMPLETED",
   "FAILED", "UNKNOWN"}
StoreInputs ==
  {ActivityInput(p, pl, so, f, st, e) :
     p \in {"", Prompt}, pl \in {"", PlanText(1)},
     so \in {"", Marshal(<<"o1">>)}, f \in {""} \cup FinalResults,
     st \in StoreStatuses, e \in {"", "APIError"}}

SaveResult(input) ==
  /\ pc = "idle" /\ cgPc = "idle"
  /\ results' = Upsert(results, input)
  /\ storeOp' = "save"
  /\ storeIn' = input
  /\ storeBefore' = results
  /\ page' = NoPage
  /\ UNCHANGED invocation
  /\ UNCHANGED <<wfvars, gitvars, obsvars, concvars, regvars, cgCtl, cgErrs,
                 cgData, cgCancelled, cgObs>>

CreatePendingRecord(prompt) ==
  /\ pc = "idle" /\ cgPc = "idle"
  /\ results' = InsertOrIgnore(results, WorkflowID, prompt)
  /\ storeOp' = "create"
  /\ storeIn' = ActivityInput(prompt, "", "", "", "PENDING", "")
  /\ storeBefore' = results
  /\ page' = NoPage
  /\ UNCHANGED invocation
  /\ UNCHANGED <<wfvars, gitvars, obsvars, concvars, regvars, cgCtl, cgErrs,
                 cgData, cgCancelled, cgObs>>

\* variant: only a PENDING row keeps the page polling
responseHTML_pendingOnly(table, id, outcome) ==
  IF id \in DOMAIN table /\ table[id].status = "PENDING"
  THEN [id |-> id, status |-> "PENDING", polling |-> TRUE,
        text |-> "Processing [PENDING]"]
  ELSE [id |-> id,
        status |-> IF id \in DOMAIN table THEN table[id].status ELSE "no row",
        polling |-> FALSE, text |-> "No result content."]
\* the answer of GetResultHandler: polling says whether the page asks again
\* after 3 s; outcome "dberr" is a failed query
responseHTML(table, id, outcome) ==
  IF outcome = "dberr"
  THEN [id |-> id, status |-> "query failed", polling |-> FALSE,
        text |-> "Error retrieving result"]
  ELSE IF id \notin DOMAIN table
  THEN [id |-> id, status |-> "no row", polling |-> TRUE,
        text |-> "Checking status..."]
  ELSE LET row == table[id]
       IN IF row.status = "COMPLETED"
          THEN [id |-> id, status |-> row.status, polling |-> FALSE,
                text |-> IF row.final_result # NULL THEN row.final_result
                         ELSE "No result content."]
          ELSE IF row.status = "FAILED"
          THEN [id |-> id, status |-> row.status, polling |-> FALSE,
                text |-> IF row.error_details \notin {NULL, ""}
                         THEN row.error_details
                         ELSE "An unknown error occurred."]
          ELSE [id |-> id, status |-> row.status, polling |-> TRUE,
                text |-> "Processing [" \o row.status \o "]"]

\* GET /get-result/<id>; the table row read is kept in storeBefore
GetResultHandler(id, outcome) ==
  /\ pc = "idle" /\ cgPc = "idle"
  /\ page' = responseHTML(results, id, outcome)
  /\ UNCHANGED invocation
  /\ storeOp' = "select"
  /\ storeIn' = [NoInput EXCEPT !.WorkflowID = id]
  /\ storeBefore' = results
  /\ UNCHANGED <<wfvars, gitvars, obsvars, concvars, regvars, cgCtl, cgErrs,
                 cgData, cgCancelled, results, cgObs>>

InitStore == CodeGenIdle /\ CodeGenerationIdle

NextStore ==
  \/ \E input \in StoreInputs : SaveResult(input)
  \/ \E prompt \in {"", Prompt} : CreatePendingRecord(prompt)
  \/ \E id \in SessionIDs, o \in {"ok", "dberr"} : GetResultHandler(id, o)

StoreSpec == InitStore /\ [][NextStore]_vars

\* ------------------------------------- one worker's gitServiceMap on its own
\* The activities of several sessions run in goroutines of one worker and
\* access the map of the one GitActivities value without a lock.  An access
\* (mapassign, mapdelete, mapaccess) takes time; two accesses that overlap,
\* one of them a write, are a data race: the access may take effect, may be
\* lost, or the runtime may stop the process with a fatal error.
Handles == {1, 2}
IsWrite(kind) == kind \in {"register", "release"}

\* what a finished access leaves in the map when it runs alone
RegEffect(m, o) ==
  IF o.kind = "register" THEN RegisterGitServiceForWorkflow(m, o.id, o.h)
  ELSE IF o.kind = "release" THEN CleanupGitServiceForWorkflow(m, o.id)
  ELSE m

\* an activity of session id starts an access (a session runs one activity
\* at a time)
RegBegin(kind, id, h) ==
  /\ pc = "idle" /\ cgPc = "idle" /\ ~regCrashed
  /\ \A o \in regOps : o.id # id
  /\ regOps' =
       {[o EXCEPT !.raced = @ \/ IsWrite(kind) \/ IsWrite(o.kind)] :
          o \in regOps}
       \cup {[kind |-> kind, id |-> id, h |-> h,
              raced |-> \E o \in regOps : IsWrite(kind) \/ IsWrite(o.kind)]}
  /\ UNCHANGED <<wfvars, gitvars, obsvars, concvars, regCrashed, regLast,
                 page, invocation, cgvars>>

\* the access of session id finishes; found is what the lookup of
\* getServiceForWorkflow answers, gone the ids whose entry CleanupGitActivity
\* removed and InitGitActivity has not registered since
RegEnd(id, outcome) ==
  /\ pc = "idle" /\ cgPc = "idle" /\ ~regCrashed
  /\ \E o \in regOps :
       /\ o.id = id
       /\ outcome = "ok" \/ o.raced
       /\ regOps' = regOps \ {o}
       /\ gitServiceMap' =
            [gitServiceMap EXCEPT ![1] =
               IF outcome = "ok" THEN RegEffect(@, o) ELSE @]
       /\ regLast' = [kind |-> o.kind, id |-> o.id, h |-> o.h,
                      raced |-> o.raced, outcome |-> outcome,
                      before |-> gitServiceMap[1],
                      found |-> HasService(gitServiceMap[1], o.id),
                      gone |-> IF o.kind = "release" /\ outcome = "ok"
                               THEN regLast.gone \cup {o.id}
                               ELSE IF o.kind = "register"
                               THEN regLast.gone \ {o.id}
                               ELSE regLast.gone]
  /\ regCrashed' = (outcome = "crash")
  /\ UNCHANGED <<wfvars, repos, remoteTree, obsvars, concvars, page, invocation, cgvars>>

NextRegistry ==
  \/ \E id \in SessionIDs, h \in Handles : RegBegin("register", id, h)
  \/ \E id \in SessionIDs, k \in {"lookup", "release"} : RegBegin(k, id, 0)
  \/ \E id \in SessionIDs, r \in {"ok", "lost", "crash"} : RegEnd(id, r)

RegistrySpec == InitStore /\ [][NextRegistry]_vars

\* --------------------------------- WriteFilesAndCommitActivity, in detail
\* The body of WriteFilesAndCommitActivity statement by statement, on a
\* session registered on worker 1 only, with change sets of up to two files.
\* Calls follow one another (a retry, or the next step).
MaxRuns == 2
WideFiles == {"a.go", "b.go"}
WideChangeSets == UNION {[S -> Contents] : S \in SUBSET WideFiles}

\* the repository after WriteFile failed on path f: MkdirAll or Create failed
\* ("create": nothing written), Write failed ("write": the file was truncated
\* by Create and holds part of the content), or Add failed ("stage": the
\* content is in the file)
\* variant: a failed write restores the worktree the call started with
FailedWrite_rollback(r, f, c, how) == [r EXCEPT !.wt = invocation.start.wt]
FailedWrite(r, f, c, how) ==
  CASE how = "create" -> r
    [] how = "write" -> [r EXCEPT !.wt[f] = "partial"]
    [] how = "stage" -> [r EXCEPT !.wt[f] = c]

\* variant: the loop over input.Changes ends after its first file
LoopDone_afterFirst(todo) == TRUE
\* the range over input.Changes has visited every file
LoopDone(todo) == todo = {}

\* what is remembered of a call that returned
Remembered(i) ==
  [name |-> i.name, changes |-> i.changes, ret |-> i.ret, hash |-> i.hash,
   commits |-> Len(repos[1].hist) - Len(i.start.hist)]

\* the activity `name` is dispatched to worker w
BeginCall(name, w, changes) ==
  [invocation EXCEPT
     !.name = name, !.worker = w, !.changes = changes, !.start = repos[1],
     !.runs = @ + 1, !.todo = {}, !.hash = 0,
     !.last = IF invocation.pc = "returned"
              THEN Remembered(invocation) ELSE @]

\* variant: the lookup error is dropped
LookupFailed_ignored(i) == [i EXCEPT !.pc = "returned", !.ret = "ok"]
\* if err != nil { return ..., err } after getServiceForWorkflow
LookupFailed(i) == [i EXCEPT !.pc = "returned", !.ret = "notfound"]

\* the call starts on worker w: handle lookup, then the empty change set
WriteFilesBegin(w, changes) ==
  /\ pc = "idle" /\ cgPc = "idle"
  /\ invocation.pc \in {"idle", "returned"}
  /\ invocation.runs < MaxRuns
  /\ LET i == BeginCall("WriteFilesAndCommitActivity", w, changes)
     IN invocation' =
          IF ~HasService(gitServiceMap[w], WorkflowID)
          THEN LookupFailed(i)
          ELSE IF NoChanges(changes)
          THEN [i EXCEPT !.pc = "returned", !.ret = "ok", !.todo = {},
                         !.hash = RepoHeadHash(repos[1])]
          ELSE [i EXCEPT !.pc = "write", !.ret = "", !.hash = 0,
                         !.todo = DOMAIN changes]
  /\ UNCHANGED <<wfvars, gitvars, obsvars, concvars, regvars, page, cgvars>>

\* one iteration of the loop: gitService.WriteFile(filePath, content)
WriteFileStep(f, outcome) ==
  /\ invocation.pc = "write"
  /\ f \in invocation.todo
  /\ IF outcome = "ok"
     THEN /\ repos' = [repos EXCEPT ![1] =
                         WriteFile(@, f, invocation.changes[f])]
          /\ invocation' =
               [invocation EXCEPT
                  !.todo = @ \ {f},
                  !.pc = IF LoopDone(invocation.todo \ {f})
                         THEN "commit" ELSE "write"]
     ELSE /\ repos' = [repos EXCEPT ![1] =
                         FailedWrite(@, f, invocation.changes[f], outcome)]
          /\ invocation' = [invocation EXCEPT !.pc = "returned",
                                              !.ret = "error"]
  /\ UNCHANGED <<wfvars, gitServiceMap, remoteTree, obsvars, concvars,
                 regvars, page, cgvars>>

\* gitService.Commit(input.CommitMessage)
CommitStep(outcome) ==
  /\ invocation.pc = "commit"
  /\ IF outcome = "ok"
     THEN /\ repos' = [repos EXCEPT ![1] = Commit(@, invocation.runs)]
          /\ invocation' =
               [invocation EXCEPT
                  !.pc = "returned", !.ret = "ok",
                  !.hash = CommitHash(repos[1], invocation.runs)]
     ELSE /\ invocation' = [invocation EXCEPT !.pc = "returned",
                                              !.ret = "error"]
          /\ UNCHANGED repos
  /\ UNCHANGED <<wfvars, gitServiceMap, remoteTree, obsvars, concvars,
                 regvars, page, cgvars>>

\* ListFilesGitActivity, ReadFilesGitActivity, CreateBranchActivity and
\* PushBranchActivity on worker w: handle lookup, then the GitService call
HandleActivities ==
  {"ListFilesGitActivity", "ReadFilesGitActivity", "CreateBranchActivity",
   "PushBranchActivity"}

GitActivity(name, w, outcome) ==
  /\ pc = "idle" /\ cgPc = "idle"
  /\ invocation.pc \in {"idle", "returned"}
  /\ invocation.runs < MaxRuns
  /\ LET i == BeginCall(name, w, <<>>)
         found == HasService(gitServiceMap[w], WorkflowID)
         h == getServiceForWorkflow(gitServiceMap[w], WorkflowID)
         done(r) == [i EXCEPT !.pc = "returned", !.ret = r]
     IN IF ~found
        THEN invocation' = LookupFailed(i) /\ UNCHANGED repos
        ELSE IF name = "CreateBranchActivity"
        THEN IF BranchExists(repos[h], branchName) \/ outcome = "err"
             THEN invocation' = done("error") /\ UNCHANGED repos
             ELSE /\ repos' = [repos EXCEPT ![h] = CreateBranch(@, branchName)]
                  /\ invocation' = done("ok")
        ELSE /\ invocation' = done(IF name = "PushBranchActivity"
                                      /\ outcome = "err"
                                   THEN "error" ELSE "ok")
             /\ UNCHANGED repos
  /\ UNCHANGED <<wfvars, gitServiceMap, remoteTree, obsvars, concvars,
                 regvars, page, cgvars>>

InitCommit ==
  /\ WorkflowIdle
  /\ CodeGenerationIdle
  /\ gitServiceMap =
       [w \in Workers |-> IF w = 1 THEN RegisterGitServiceForWorkflow(
                                          EmptyMap, WorkflowID, 1)
                          ELSE EmptyMap]
  /\ \E tree \in [WideFiles -> Contents \cup {NoFile}] :
       repos = <<NewGitService(tree)>>

NextCommit ==
  \/ \E w \in Workers, changes \in WideChangeSets : WriteFilesBegin(w, changes)
  \/ \E f \in WideFiles, o \in {"ok", "create", "write", "stage"} :
       WriteFileStep(f, o)
  \/ \E o \in {"ok", "err"} : CommitStep(o)
  \/ \E name \in HandleActivities, w \in Workers, o \in {"ok", "err"} :
       GitActivity(name, w, o)

CommitSpec == InitCommit /\ [][NextCommit]_vars

\* ============================================================ properties
\* workers whose registry holds a GitService under the run's workflow ID
Registered == {w \in Workers : HasService(gitServiceMap[w], WorkflowID)}

Called(name) == \E i \in 1..Len(calls) : calls[i][1] = name
CgCalled(name) == \E i \in 1..Len(cgCalls) : cgCalls[i].name = name

\* InitGitActivity returned nil to the workflow
InitSucceeded ==
  /\ pc \notin {"idle", "InitGitActivity"}
  /\ ret.err # ErrKind("InitGitActivity")

StepActivities ==
  {"ListFilesGitActivity", "EvaluateFilesActivity", "ReadFilesGitActivity",
   "GenerateCodeActivity", "WriteFilesAndCommitActivity"}

\* C1: for a run whose InitGitActivity succeeded, exactly one GitService is
\* registered under the workflow ID (over all workers' registries) from then
\* until CleanupGitActivity runs, and none once the run has ended.
C1_OneSessionThenNone ==
  /\ (InitSucceeded /\ ~cleanupRan /\ pc # "done")
       => Cardinality(Registered) = 1
  /\ (InitSucceeded /\ pc = "done") => Registered = {}

\* C2: once InitGitActivity has succeeded, the workflow has called
\* CleanupGitActivity (as its last activity call) whenever the run has ended,
\* whatever the exit path.
C2_CleanupInvokedOnEveryExit ==
  (pc = "done" /\ InitSucceeded)
    => /\ calls # <<>>
       /\ calls[Len(calls)][1] = "CleanupGitActivity"

\* a run that ended after a failed push and has called the cleanup
C2_Witness ==
  /\ pc = "done"
  /\ ret.msg = "failed to push"
  /\ ~cancelled
  /\ calls[Len(calls)][1] = "CleanupGitActivity"

\* C3: a run cancelled after InitGitActivity succeeded still runs
\* CleanupGitActivity, and the registry entry is removed.
C3_CleanupRunsOnCancel ==
  (pc = "done" /\ InitSucceeded /\ cancelled)
    => cleanupRan /\ Registered = {}

\* C4: when InitGitActivity failed after its retries the run ends failed, no
\* later activity is called and no registry entry of the workflow ID remains.
C4_InitFailureLeavesNothing ==
  (pc = "done" /\ ret.err = ErrKind("InitGitActivity")
     /\ ret.cause # "canceled")
    => /\ ret.status = "error"
       /\ \A i \in 1..Len(calls) : calls[i][1] = "InitGitActivity"
       /\ Registered = {}

\* the planning position of CodeGenerationWorkflow is behind
CgPlanned == cgPc \notin {"idle", "CreatePending", "SavePlanning", "Planning"}

\* C5: a plan with zero steps ends the run failed, never completed:
\* CodeGenWorkflow returns an error and calls no step activity and no branch
\* activity; CodeGenerationWorkflow fails, writes FAILED (never COMPLETED) as
\* its final status and calls neither ExecutionAgentActivity nor
\* CombineAgentActivity.
C5_ZeroStepPlanFails ==
  /\ (InitSucceeded /\ pc # "PlanStepsActivity" /\ plannedSteps = 0)
       => /\ ret.status = "error"
          /\ \A i \in 1..Len(calls) :
               calls[i][1] \in {"InitGitActivity", "PlanStepsActivity",
                                "CleanupGitActivity"}
  /\ (CgPlanned /\ planResponse = PlanText(0))
       => /\ cgRet.status = "error"
          /\ finalStatus = "FAILED"
          /\ \A i \in 1..Len(writes) : writes[i] # "COMPLETED"
          /\ (cgPc = "done" /\ writes # <<>>
                /\ writes[Len(writes)] = "FAILED")
               => results[WorkflowID].status = "FAILED"
          /\ ~CgCalled("ExecutionAgentActivity")
          /\ ~CgCalled("CombineAgentActivity")

\* the planning model answered an empty list and the run recorded FAILED
C5_Witness ==
  /\ cgPc = "done"
  /\ planResponse = PlanText(0)
  /\ ~cgCancelled
  /\ WorkflowID \in DOMAIN results
  /\ results[WorkflowID].status = "FAILED"

\* C6: in CodeGenerationWorkflow an attempt of PlanningAgentActivity that
\* ends with InvalidPlanFormat or EmptyPlan is never followed by another
\* attempt (one such attempt per run); the run then goes from PLANNING to
\* FAILED and executes no step.
C6_BadPlanNotRetried ==
  /\ badPlans <= 1
  /\ planningErr \in {"InvalidPlanFormat", "EmptyPlan"}
       => /\ badPlans = 1
          /\ currentStatus = "PLANNING"
          /\ finalStatus = "FAILED"
          /\ \A i \in 1..Len(writes) :
               writes[i] \in {"PENDING", "PLANNING", "FAILED"}
          /\ ~CgCalled("ExecutionAgentActivity")
          /\ planSteps = 0

\* the model answered something that is no JSON on the first attempt, and
\* the store went from PLANNING to FAILED
C6_Witness ==
  /\ cgPc = "done"
  /\ planningErr = "InvalidPlanFormat"
  /\ cgRet.attempts = 1
  /\ writes = <<"PENDING", "PLANNING", "FAILED">>

\* C7: in CodeGenWorkflow an empty plan, a handle that is not found and a
\* branch-name collision fail the run at the first attempt of the activity.
C7_FatalNotRetried ==
  (ret.status = "error" /\ ret.cause \in {"emptyplan", "notfound", "collision"})
    => ret.attempts = 1

\* the file listing of step i has returned to the workflow
ListDone(i) ==
  \/ i < stepNum
  \/ /\ i = stepNum
     /\ pc \notin {"idle", "ListFilesGitActivity"}
     /\ ret.err # ErrKind("ListFilesGitActivity")

\* steps before step i that created a commit
CommittedBefore(i) == {j \in 1..(i - 1) : \E c \in commitLog : c[2] = j}

\* positions of the ExecutionAgentActivity calls in cgCalls
ExecCalls == {i \in 1..Len(cgCalls) : cgCalls[i].name = "ExecutionAgentActivity"}

\* C8: steps run in plan order, one at a time: the step numbers of the
\* activity calls never decrease and grow by one, each step's first activity
\* is called once, step i's file listing sees exactly the commits of steps
\* 1..i-1, a completed run called every step once, and in
\* CodeGenerationWorkflow step i is called with the output of step i-1 (empty
\* for step 1).
C8_StepsInOrder ==
  /\ \A i \in 1..(Len(calls) - 1) :
       calls[i + 1][2] \in {calls[i][2], calls[i][2] + 1}
  /\ \A n \in 1..MaxSteps :
       Cardinality({i \in 1..Len(calls) :
                      calls[i] = <<"ListFilesGitActivity", n>>}) <= 1
  /\ ret.status = "ok"
       => \A n \in 1..plannedSteps :
            \E i \in 1..Len(calls) : calls[i] = <<"ListFilesGitActivity", n>>
  /\ \A n \in 1..MaxSteps : ListDone(n) => listed[n] = CommittedBefore(n)
  /\ \A i \in ExecCalls :
       /\ cgCalls[i].step = Cardinality({j \in ExecCalls : j <= i})
       /\ cgCalls[i].arg = IF cgCalls[i].step = 1 THEN ""
                           ELSE executionOutputs[cgCalls[i].step - 1]
  /\ cgRet.status = "ok"
       => /\ Cardinality(ExecCalls) = planSteps
          /\ Len(executionOutputs) = planSteps

\* C9: a step whose code generation returned no changes calls no
\* WriteFilesAndCommitActivity and creates no commit, is not the step the run
\* fails in, and the next activity call is the next step's file listing, or
\* the branch creation after the last step.
C9_ZeroChangeStepAdvances ==
  \A n \in zeroSteps :
    /\ \A i \in 1..Len(calls) : calls[i] # <<"WriteFilesAndCommitActivity", n>>
    /\ \A c \in commitLog : c[2] # n
    /\ \A h \in 1..Len(repos) : n \notin CommittedSteps(repos[h])
    /\ (ret.status = "error" /\ ret.err \in {ErrKind(a) : a \in StepActivities})
         => ret.step # n
    /\ \A i \in 1..(Len(calls) - 1) :
         calls[i] = <<"GenerateCodeActivity", n>>
           => calls[i + 1] = IF n < plannedSteps
                             THEN <<"ListFilesGitActivity", n + 1>>
                             ELSE <<"CreateBranchActivity", n>>
    /\ n < stepNum \/ pc \notin StepActivities

\* the last step generated no changes, no commit exists, and the branch was
\* created
C9_Witness ==
  /\ plannedSteps \in zeroSteps
  /\ commitLog = {}
  /\ ret.status = "ok"
  /\ Called("CreateBranchActivity")
  /\ \E h \in 1..Len(repos) : BranchExists(repos[h], branchName)

\* position of the last activity call that is not the cleanup
LastWorkCall ==
  CHOOSE i \in 1..Len(calls) :
    /\ calls[i][1] # "CleanupGitActivity"
    /\ \A j \in (i + 1)..Len(calls) : calls[j][1] = "CleanupGitActivity"

\* C10: when an activity of step k has failed for good, the run returns an
\* error that names step k, no activity of a later step and no branch or push
\* activity is called, every commit created so far is still in its handle's
\* history, and the cleanup is what the workflow does next.
C10_StepFailureAborts ==
  (ret.status = "error" /\ ret.err \in {ErrKind(a) : a \in StepActivities})
    => /\ calls[LastWorkCall][1] \in StepActivities
       /\ ErrKind(calls[LastWorkCall][1]) = ret.err
       /\ ret.step = calls[LastWorkCall][2]
       /\ \A i \in 1..Len(calls) :
            /\ calls[i][2] <= ret.step
            /\ calls[i][1] \notin {"CreateBranchActivity", "PushBranchActivity"}
       /\ \A h \in 1..Len(repos) : repos[h].branches = <<>>
       /\ \A c \in commitLog : c[2] \in CommittedSteps(repos[c[1]])
       /\ pc \in {"CleanupGitActivity", "done"}
       /\ pc = "done" => calls[Len(calls)][1] = "CleanupGitActivity"

\* step 2 failed for good after step 1 had committed
C10_Witness ==
  /\ pc = "done"
  /\ ret.status = "error"
  /\ ret.err = ErrKind("GenerateCodeActivity")
  /\ ret.step = 2
  /\ ret.attempts = MaximumAttempts
  /\ \E c \in commitLog : c[2] = 1 /\ 1 \in CommittedSteps(repos[c[1]])
  /\ cleanupRan

\* the workflow function has returned
Returned == ret.status # "running"

\* C11: when PushBranchActivity has failed for good after the branch was
\* created, the workflow returns an output and a nil error; the output
\* carries the branch name and the created-but-not-pushed message.
C11_PushFailureIsSuccess ==
  /\ (Returned /\ calls[LastWorkCall][1] = "PushBranchActivity"
        /\ ret.cause # "")
       => /\ ret.status = "ok"
          /\ ret.err = ""
          /\ ret.branch = branchName
          /\ ret.msg = "failed to push"
          /\ Called("CreateBranchActivity")
  /\ ret.msg = "failed to push"
       => /\ calls[LastWorkCall][1] = "PushBranchActivity"
          /\ \E h \in 1..Len(repos) : BranchExists(repos[h], branchName)

\* the push failed on all its attempts and the run ended with an output
C11_Witness ==
  /\ pc = "done"
  /\ ret.status = "ok"
  /\ ret.msg = "failed to push"
  /\ ret.cause = "transient"
  /\ ret.attempts = MaximumAttempts
  /\ ret.branch = branchName
  /\ \E h \in 1..Len(repos) : BranchExists(repos[h], branchName)

\* C12: a CreateBranch on a name that already exists in the session's
\* repository returns an error and changes no reference, and the run then
\* fails without calling the push.
C12_CollisionFailsRun ==
  /\ collided # "changed"
  /\ (collided = "kept" /\ Returned)
       => /\ ret.status = "error"
          /\ ~Called("PushBranchActivity")

\* C13: PushBranchActivity is called only with both credentials set and
\* after CreateBranchActivity succeeded, and it is called whenever a run with
\* both credentials got past the branch creation; a successful run that did
\* not call it says the push was skipped, and only a run whose push was
\* called and succeeded says it pushed.
C13_PushIffCredentials ==
  /\ (Called("PushBranchActivity") \/ pc = "PushBranchActivity")
       => /\ gitUsername # "" /\ gitPassword # ""
          /\ Called("CreateBranchActivity")
          /\ \E h \in 1..Len(repos) : BranchExists(repos[h], branchName)
  /\ \A i \in 1..Len(calls) :
       calls[i][1] = "PushBranchActivity"
         => i > 1 /\ calls[i - 1][1] = "CreateBranchActivity"
  /\ (ret.status = "ok" /\ gitUsername # "" /\ gitPassword # "")
       => Called("PushBranchActivity")
  /\ (ret.status = "ok" /\ ~Called("PushBranchActivity"))
       => ret.msg = "push skipped"
  /\ ret.msg = "pushed"
       => /\ Called("PushBranchActivity")
          /\ ret.status = "ok"
          /\ ret.cause = ""

\* only the username is set: the branch was created and the push skipped
C13_Witness ==
  /\ pc = "done"
  /\ gitUsername # ""
  /\ gitPassword = ""
  /\ ret.status = "ok"
  /\ ret.msg = "push skipped"
  /\ ~Called("PushBranchActivity")
  /\ \E h \in 1..Len(repos) : BranchExists(repos[h], branchName)

\* the statuses that end a run, and the place of a status in the sequence
\* PENDING, PLANNING, EXECUTING_STEP_1, ..., COMBINING, COMPLETED | FAILED
Terminal == {"COMPLETED", "FAILED"}
Phase(s) ==
  IF s = "PENDING" THEN 0
  ELSE IF s = "PLANNING" THEN 1
  ELSE IF \E i \in 1..MaxSteps : s = "EXECUTING_STEP_" \o ToString(i)
  THEN 1 + (CHOOSE i \in 1..MaxSteps : s = "EXECUTING_STEP_" \o ToString(i))
  ELSE IF s = "COMBINING" THEN MaxSteps + 2
  ELSE IF s \in Terminal THEN MaxSteps + 3
  ELSE 0 - 1

\* C14: the statuses one run writes to the table never go back in the phase
\* sequence (a step status never follows a later step's), every written
\* status belongs to the sequence, and a terminal status is written at most
\* once and is the last write.
C14_StatusMovesForward ==
  /\ \A i \in 1..Len(writes) : Phase(writes[i]) >= 0
  /\ \A i, j \in 1..Len(writes) :
       i < j => Phase(writes[i]) <= Phase(writes[j])
  /\ \A i \in 1..Len(writes) : writes[i] \in Terminal => i = Len(writes)
  /\ (cgPc = "done" /\ cgCalls # <<>>
        /\ cgCalls[Len(cgCalls)].name = "SaveResultActivity"
        /\ WorkflowID \in DOMAIN results
        /\ results[WorkflowID].status \in Terminal)
       => writes[Len(writes)] \in Terminal

C14_Witness ==
  /\ cgPc = "done"
  /\ writes = <<"PENDING", "PLANNING", "PLANNING", "EXECUTING_STEP_1",
                "EXECUTING_STEP_2", "COMBINING", "COMPLETED">>

\* C15: a SaveResultActivity that carries a non-terminal status for a row
\* whose status is COMPLETED or FAILED leaves the stored status as it was.
C15_TerminalSticky ==
  (storeOp = "save" /\ WorkflowID \in DOMAIN storeBefore
     /\ storeBefore[WorkflowID].status \in Terminal
     /\ storeIn.Status \notin Terminal)
    => results[WorkflowID].status = storeBefore[WorkflowID].status

\* C16: a SaveResultActivity on an existing row keeps each of prompt, plan,
\* step_outputs and final_result when the stored value is non-empty and the
\* incoming one is empty, and always replaces status and error_details; so
\* the plan saved after planning survives the status-only saves that follow.
C16_EmptyNeverErases ==
  (storeOp = "save" /\ WorkflowID \in DOMAIN storeBefore)
    => LET old == storeBefore[WorkflowID]
           new == results[WorkflowID]
       IN /\ (old.prompt \notin {NULL, ""} /\ storeIn.Prompt = "")
               => new.prompt = old.prompt
          /\ (old.plan \notin {NULL, ""} /\ storeIn.Plan = "")
               => new.plan = old.plan
          /\ (old.step_outputs \notin {NULL, ""} /\ storeIn.StepOutputs = "")
               => new.step_outputs = old.step_outputs
          /\ (old.final_result \notin {NULL, ""} /\ storeIn.FinalResult = "")
               => new.final_result = old.final_result
          /\ new.status = storeIn.Status
          /\ new.error_details = storeIn.ErrorDetails
          /\ (old.plan = planJSON /\ planJSON # ""
                /\ Phase(storeIn.Status) \in 2..(MaxSteps + 2))
               => new.plan = planJSON

\* C17: SaveResultActivity is idempotent: run a second time with the same
\* ActivityInput, on any table, it leaves every column of every row as the
\* first run left it.
C17_UpsertIdempotent ==
  storeOp = "save"
    => /\ results = Upsert(storeBefore, storeIn)
       /\ Upsert(results, storeIn) = results

\* a save with a partly empty input that changed an existing row
C17_Witness ==
  /\ storeOp = "save"
  /\ WorkflowID \in DOMAIN storeBefore
  /\ storeBefore[WorkflowID].status = "COMPLETED"
  /\ storeBefore[WorkflowID].plan = PlanText(1)
  /\ storeIn.Plan = ""
  /\ storeIn.Prompt = Prompt
  /\ storeIn.Status = "PLANNING"
  /\ results # storeBefore
  /\ Upsert(results, storeIn) = results

\* C18: a statement that finds no row for the workflow ID creates the row
\* with status PENDING, and CreatePendingRecordActivity on a workflow ID that
\* has a row leaves the table as it was.
C18_RowStartsPending ==
  /\ (storeOp # "none" /\ WorkflowID \notin DOMAIN storeBefore)
       => /\ WorkflowID \in DOMAIN results
          /\ results[WorkflowID].status = "PENDING"
  /\ (storeOp = "create" /\ WorkflowID \in DOMAIN storeBefore)
       => results = storeBefore

\* C19: the error detail of a terminal save is the execution error if there
\* is one, else the combine error, else the planning error, and a save error
\* only with none of these; the status is FAILED exactly when there is a
\* detail, and the detail is the error the run stopped at and returned.
C19_ErrorByPriority ==
  (storeOp = "save" /\ storeIn.Status \in Terminal)
    => /\ storeIn.ErrorDetails =
            (IF executionErr # "" THEN executionErr
             ELSE IF combineErr # "" THEN combineErr
             ELSE IF planningErr # "" THEN planningErr
             ELSE IF saveErr # "" THEN "final state save failed" ELSE "")
       /\ storeIn.Status = "FAILED" <=> storeIn.ErrorDetails # ""
       /\ Cardinality({e \in {"execution", "combine", "planning"} :
            (IF e = "execution" THEN executionErr
             ELSE IF e = "combine" THEN combineErr ELSE planningErr) # ""}) <= 1
       /\ storeIn.ErrorDetails = cgRet.err
       /\ cgRet.status = "error" <=> storeIn.Status = "FAILED"
       /\ results[WorkflowID].error_details = storeIn.ErrorDetails
       /\ results[WorkflowID].status = storeIn.Status

\* the second step failed for good and the planning had succeeded
C19_Witness ==
  /\ cgPc = "done"
  /\ storeOp = "save"
  /\ results[WorkflowID].status = "FAILED"
  /\ results[WorkflowID].error_details = StepFailed(2, "APIError")
  /\ executionErr = StepFailed(2, "APIError")
  /\ planningErr = "" /\ combineErr = ""

\* C20: once CodeGenerationWorkflow has ended, however it ended, exactly one
\* SaveResultActivity carrying COMPLETED or FAILED was attempted, as the
\* last activity of the run; the run returns the success value exactly when
\* no pipeline error occurred and otherwise that error, whatever the outcome
\* of the final save.
C20_OneFinalSave ==
  cgPc = "done"
    => /\ Cardinality({i \in 1..Len(cgCalls) :
              /\ cgCalls[i].name = "SaveResultActivity"
              /\ cgCalls[i].arg \in Terminal}) = 1
       /\ cgCalls[Len(cgCalls)].name = "SaveResultActivity"
       /\ cgCalls[Len(cgCalls)].arg \in Terminal
       /\ cgCalls[Len(cgCalls)].arg = "FAILED"
            <=> (executionErr # "" \/ combineErr # "" \/ planningErr # "")
       /\ cgRet.status = "ok"
            <=> (executionErr = "" /\ combineErr = "" /\ planningErr = "")
       /\ cgRet.status # "ok"
            => cgRet.err \in {executionErr, combineErr, planningErr} \ {""}

\* C21: a status write that fails for good in the middle of a run (or is
\* skipped) changes nothing of what follows: saveErr is nil again, the next
\* activity of the sequence is called as after a successful write, and a run
\* with such failures and no pipeline error ends COMPLETED and returns the
\* success value.
C21_MidRunWriteFailureIsSoft ==
  /\ cgPc # "FinalSave" => saveErr = ""
  /\ \A i \in 1..(Len(cgCalls) - 1) :
       LET c == cgCalls[i]
           n == cgCalls[i + 1]
       IN /\ c.name = "CreatePendingRecordActivity"
               => n.name = "SaveResultActivity" /\ n.arg = "PLANNING"
          /\ (c.name = "SaveResultActivity" /\ c.arg = "PLANNING")
               => \/ n.name = "PlanningAgentActivity"
                  \/ n.name = "SaveResultActivity"
                       /\ n.arg = "EXECUTING_STEP_1"
          /\ (c.name = "SaveResultActivity"
                /\ Phase(c.arg) \in 2..(MaxSteps + 1))
               => n.name = "ExecutionAgentActivity" /\ n.step = c.step
          /\ (c.name = "SaveResultActivity" /\ c.arg = "COMBINING")
               => n.name = "CombineAgentActivity"
  /\ (cgPc \in {"FinalSave", "done"} /\ cgRet.status # "panic"
        /\ executionErr = "" /\ combineErr = "" /\ planningErr = "")
       => /\ cgRet.status = "ok"
          /\ saveInput.Status = "COMPLETED" \/ cgPc = "done"
          /\ (cgPc = "done" /\ storeOp = "save" /\ storeIn.Status \in Terminal)
               => results[WorkflowID].status = "COMPLETED"

\* every write before the final one failed and the run completed
C21_Witness ==
  /\ cgPc = "done"
  /\ softFails = LocalSites \ {"FinalSave"}
  /\ ~cgCancelled
  /\ cgRet.status = "ok"
  /\ writes = <<"COMPLETED">>
  /\ results[WorkflowID].status = "COMPLETED"

\* C22: an InitGitActivity registration for a workflow ID that has an entry
\* succeeds and replaces it: the lookup of that ID then gives the new handle
\* and the entries of all other IDs are as before (for a registration that
\* no other access to the map overlapped).
C22_RegisterOverwrites ==
  (regLast.kind = "register" /\ ~regLast.raced)
    => LET after == RegEffect(regLast.before, regLast)
       IN /\ regLast.outcome = "ok"
          /\ HasService(after, regLast.id)
          /\ getServiceForWorkflow(after, regLast.id) = regLast.h
          /\ \A k \in SessionIDs \ {regLast.id} :
               /\ HasService(after, k) <=> HasService(regLast.before, k)
               /\ HasService(after, k)
                    => getServiceForWorkflow(after, k)
                         = getServiceForWorkflow(regLast.before, k)
          /\ regOps = {} => gitServiceMap[1] = after

\* the entry of codegen-1 held handle 1 and now holds handle 2, next to the
\* entry of another session
C22_Witness ==
  /\ regLast.kind = "register" /\ ~regLast.raced
  /\ regLast.id = WorkflowID /\ regLast.h = 2
  /\ HasService(regLast.before, WorkflowID)
  /\ getServiceForWorkflow(regLast.before, WorkflowID) = 1
  /\ HasService(regLast.before, "codegen-2")
  /\ staleOn = 0
  /\ regOps = {}
  /\ getServiceForWorkflow(gitServiceMap[1], WorkflowID) = 2

\* C23: a CleanupGitActivity release succeeds with or without an entry for
\* the workflow ID, a second release leaves the map as the first left it,
\* and the entries of all other IDs are as before (for a release that no
\* other access to the map overlapped).
C23_ReleaseIdempotent ==
  (regLast.kind = "release" /\ ~regLast.raced)
    => LET after == RegEffect(regLast.before, regLast)
       IN /\ regLast.outcome = "ok"
          /\ ~HasService(after, regLast.id)
          /\ CleanupGitServiceForWorkflow(after, regLast.id) = after
          /\ \A k \in SessionIDs \ {regLast.id} :
               /\ HasService(after, k) <=> HasService(regLast.before, k)
               /\ HasService(after, k)
                    => getServiceForWorkflow(after, k)
                         = getServiceForWorkflow(regLast.before, k)
          /\ gitServiceMap[1] = after

\* a release of codegen-1, which had no entry, next to the entry of another
\* session
C23_Witness ==
  /\ regLast.kind = "release" /\ ~regLast.raced
  /\ regLast.id = WorkflowID
  /\ ~HasService(regLast.before, WorkflowID)
  /\ HasService(regLast.before, "codegen-2")
  /\ regLast.outcome = "ok"
  /\ gitServiceMap[1] = regLast.before

\* C24: accesses to the map by activities of different sessions of one
\* worker, however they overlap, act as if run one after another: the worker
\* never dies of it, and every finished access has taken its effect on the
\* map as it was when the access finished.
C24_RegistryRaceFree ==
  /\ ~regCrashed
  /\ regLast.kind # "none"
       => /\ regLast.outcome = "ok"
          /\ gitServiceMap[1] = RegEffect(regLast.before, regLast)

\* C25: in one session no attempt of WriteFilesAndCommitActivity or
\* CreateBranchActivity changes the session's repository handle while an
\* earlier attempt, timed out, is still working on that handle.
C25_OneInvocationPerHandle ==
  [][\A h \in 1..Len(repos) : repos'[h] # repos[h] => staleOn # h]_vars

C27_OnlyTerminalStopsPolling ==
  (storeOp = "select" /\ page.status # "query failed")
    => LET id == page.id
           has == id \in DOMAIN storeBefore
       IN /\ page.polling <=> (~has \/ storeBefore[id].status \notin Terminal)
          /\ (has /\ storeBefore[id].status = "COMPLETED"
                /\ storeBefore[id].final_result # NULL)
               => page.text = storeBefore[id].final_result
          /\ (has /\ storeBefore[id].status = "FAILED"
                /\ storeBefore[id].error_details \notin {NULL, ""})
               => page.text = storeBefore[id].error_details
          /\ (has /\ storeBefore[id].status \notin Terminal)
               => page.text = "Processing [" \o storeBefore[id].status \o "]"

\* a query that read a row with a status outside the workflow's phases
C27_Witness ==
  /\ storeOp = "select"
  /\ page.id = WorkflowID
  /\ WorkflowID \in DOMAIN storeBefore
  /\ storeBefore[WorkflowID].status = "UNKNOWN"
  /\ page.polling

\* C28: a commit on a clean worktree changes nothing and returns the head
\* hash. For every handle and every change set: when the change set is empty,
\* or writing it leaves the worktree equal to HEAD's tree, writing and
\* committing adds no commit and leaves the branches alone, and Commit returns
\* the hash HEAD had; and a step of WriteFilesAndCommitActivity that leaves a
\* worktree equal to the tree of HEAD adds no commit to that handle.
C28_CleanCommitIsNoOp ==
  [][\A h \in 1..Len(repos) :
       /\ \A changes \in ChangeSets :
            LET staged == WriteAll(repos[h], changes, DOMAIN changes)
                after == WriteFilesAndCommit(repos[h], changes, stepNum)
            IN (NoChanges(changes) \/ IsClean(staged))
                 => /\ after.hist = repos[h].hist
                    /\ after.branches = repos[h].branches
                    /\ RepoHeadHash(after) = RepoHeadHash(repos[h])
                    /\ IsClean(staged)
                         => CommitHash(staged, stepNum) = RepoHeadHash(repos[h])
       /\ (pc = "WriteFilesAndCommitActivity"
             /\ repos'[h].wt = HeadTree(repos[h]))
            => /\ repos'[h].hist = repos[h].hist
               /\ repos'[h].branches = repos[h].branches]_vars

\* the only step wrote content equal to HEAD's and succeeded without a commit
C28_Witness ==
  /\ pc = "CreateBranchActivity"
  /\ plannedSteps = 1
  /\ calls # <<>>
  /\ calls[Len(calls)] = <<"WriteFilesAndCommitActivity", 1>>
  /\ timeouts = 0
  /\ commitLog = {}
  /\ \A h \in 1..Len(repos) : repos[h].hist = <<>> /\ IsClean(repos[h])

\* C29: the relevant files are a subset of the listing: whatever the model
\* suggests, EvaluateRelevantFiles returns a subset of the listing it was
\* given, keeps every suggested path that is listed and drops every suggested
\* path that is not; and the relevant files of the running step are among
\* the files listed for it.
C29_RelevantWithinListing ==
  /\ relevantFiles \subseteq allFiles
  /\ \A suggested \in SUBSET Suggestable :
       LET kept == EvaluateRelevantFiles(suggested, allFiles)
       IN /\ kept \subseteq allFiles
          /\ \A f \in suggested : f \in kept <=> f \in allFiles

\* the evaluation kept a listed file and the step goes on to read it
C29_Witness ==
  /\ pc = "ReadFilesGitActivity"
  /\ calls # <<>>
  /\ calls[Len(calls)][1] = "EvaluateFilesActivity"
  /\ allFiles # {}
  /\ relevantFiles = allFiles

\* C30: ReadFilesGitActivity skips unreadable files and fails only for a
\* missing session. An attempt that succeeds returns, for the handle of some
\* worker that has the session, exactly the requested paths readable there,
\* each with its content in the worktree; an attempt that fails without
\* having timed out or been cancelled ran on a worker that has no handle for
\* the session; and for every handle and every set of paths ReadFiles has
\* exactly the readable paths as keys.
C30_UnreadableFilesSkipped ==
  [][pc = "ReadFilesGitActivity"
       => /\ pc' = "GenerateCodeActivity"
               => \E w \in Workers :
                    /\ HasService(gitServiceMap[w], WorkflowID)
                    /\ LET r == repos[getServiceForWorkflow(gitServiceMap[w],
                                                            WorkflowID)]
                       IN /\ DOMAIN readFileContent'
                               = {p \in relevantFiles : Readable(r, p)}
                          /\ \A p \in DOMAIN readFileContent' :
                               readFileContent'[p] = ReadFile(r, p)
          /\ (attempt' = attempt + 1 /\ timeouts' = timeouts)
               => \E w \in Workers : ~HasService(gitServiceMap[w], WorkflowID)
          /\ (ret' # ret /\ ret'.status = "error"
                /\ ret'.cause \notin {"timeout", "canceled"})
               => /\ ret'.cause = "notfound"
                  /\ \E w \in Workers :
                       ~HasService(gitServiceMap[w], WorkflowID)
          /\ \A h \in 1..Len(repos), paths \in SUBSET Files :
               LET contents == ReadFiles(repos[h], paths)
               IN /\ DOMAIN contents = {p \in paths : Readable(repos[h], p)}
                  /\ \A p \in DOMAIN contents : contents[p] = repos[h].wt[p]
    ]_vars

\* a read that succeeded although a requested file could not be read
C30_Witness ==
  /\ pc = "GenerateCodeActivity"
  /\ calls # <<>>
  /\ calls[Len(calls)][1] = "ReadFilesGitActivity"
  /\ relevantFiles # {}
  /\ DOMAIN readFileContent # relevantFiles

\* C31: every changed file is written and staged before the one commit.
\* A step that adds a commit is the commit statement of a call whose loop has
\* visited every file, and adds one commit whose tree holds every changed
\* file with its new content; a call that returns without error leaves the
\* repository that writing all files and committing once gives, at most one
\* commit longer than at its start.
C31_AllStagedThenOneCommit ==
  [][/\ Len(repos'[1].hist) > Len(repos[1].hist)
          => /\ invocation.pc = "commit"
             /\ invocation.todo = {}
             /\ Len(repos'[1].hist) = Len(repos[1].hist) + 1
             /\ \A f \in DOMAIN invocation.changes :
                  repos'[1].hist[Len(repos'[1].hist)].tree[f]
                    = invocation.changes[f]
     /\ (invocation'.pc = "returned" /\ invocation'.ret = "ok"
           /\ ~NoChanges(invocation'.changes))
          => /\ repos'[1] = WriteFilesAndCommit(invocation'.start,
                                                invocation'.changes,
                                                invocation'.runs)
             /\ Len(repos'[1].hist) <= Len(invocation'.start.hist) + 1
    ]_vars

\* a call with two changed files returned after creating its commit
C31_Witness ==
  /\ invocation.pc = "returned"
  /\ invocation.ret = "ok"
  /\ DOMAIN invocation.changes = WideFiles
  /\ Len(repos[1].hist) = Len(invocation.start.hist) + 1

\* C32: a step that changes the branches of a handle appends one reference,
\* named as the run's branch, whose target is the head of that handle before
\* the step, and leaves the earlier references, the commits, the cloned head
\* and the worktree as they were; and for one prefix two different run IDs
\* give two different branch names.
C32_BranchAtHeadOnly ==
  [][/\ \A h \in 1..Len(repos) :
          repos'[h].branches # repos[h].branches
            => LET old == repos[h].branches
                   new == repos'[h].branches
               IN /\ pc = "CreateBranchActivity"
                  /\ Len(new) = Len(old) + 1
                  /\ \A i \in 1..Len(old) : new[i] = old[i]
                  /\ new[Len(new)].name = branchName
                  /\ new[Len(new)].target = RepoHeadHash(repos[h])
                  /\ \A i \in 1..Len(old) : old[i].name # branchName
                  /\ repos'[h].hist = repos[h].hist
                  /\ repos'[h].wt = repos[h].wt
                  /\ repos'[h].base = repos[h].base
     /\ \A h \in 1..Len(repos), name \in {branchName, "main"} :
          LET after == CreateBranch(repos[h], name)
          IN /\ Len(after.branches) = Len(repos[h].branches) + 1
             /\ after.branches[Len(after.branches)]
                  = [name |-> name, target |-> RepoHeadHash(repos[h])]
             /\ RepoHeadHash(after) = RepoHeadHash(repos[h])
             /\ after.wt = repos[h].wt
     /\ \A prefix \in Prefixes, r1 \in RunIDs, r2 \in RunIDs :
          r1 # r2 => BranchNameFor(prefix, r1) # BranchNameFor(prefix, r2)
    ]_vars

\* the run returned with its branch on the commit of a step
C32_Witness ==
  /\ ret.status = "ok"
  /\ \E h \in 1..Len(repos) :
       /\ repos[h].hist # <<>>
       /\ Len(repos[h].branches) = 1
       /\ repos[h].branches[1]
            = [name |-> branchName, target |-> Len(repos[h].hist)]

\* C33: each phase status is saved on entry. In the sequence of activity
\* calls of a run, the call before PlanningAgentActivity is the
\* SaveResultActivity of PLANNING, the call before ExecutionAgentActivity of
\* step i is the SaveResultActivity of EXECUTING_STEP_i, and the call before
\* CombineAgentActivity is the SaveResultActivity of COMBINING.
C33_StatusSavedOnEntry ==
  \A j \in 1..Len(cgCalls) :
    LET c == cgCalls[j]
        work == {"PlanningAgentActivity", "ExecutionAgentActivity",
                 "CombineAgentActivity"}
    IN c.name \in work
         => /\ j > 1
            /\ cgCalls[j - 1].name = "SaveResultActivity"
            /\ cgCalls[j - 1].arg =
                 (IF c.name = "PlanningAgentActivity" THEN "PLANNING"
                  ELSE IF c.name = "ExecutionAgentActivity"
                  THEN StepStatus(c.step) ELSE "COMBINING")
            /\ c.name = "ExecutionAgentActivity"
                 => cgCalls[j - 1].step = c.step

\* a run with two steps has called all three agents
C33_Witness ==
  /\ cgPc = "done"
  /\ \E j \in 1..Len(cgCalls) :
       cgCalls[j].name = "ExecutionAgentActivity" /\ cgCalls[j].step = 2
  /\ \E j \in 1..Len(cgCalls) : cgCalls[j].name = "CombineAgentActivity"
  /\ \E j \in 1..Len(cgCalls) : cgCalls[j].name = "PlanningAgentActivity"

\* C34: a git activity dispatched to a worker whose registry has no entry
\* for the workflow ID returns the not-found error and changes neither a
\* registry nor a repository, each time it is dispatched there; and the
\* not-found error is returned in no other case.
C34_NoHandleNoEffect ==
  [][invocation'.runs = invocation.runs + 1
       => LET w == invocation'.worker
          IN /\ invocation'.name
                  \in HandleActivities \cup {"WriteFilesAndCommitActivity"}
             /\ ~HasService(gitServiceMap[w], WorkflowID)
                  => /\ invocation'.pc = "returned"
                     /\ invocation'.ret = "notfound"
                     /\ repos' = repos
                     /\ gitServiceMap' = gitServiceMap
             /\ invocation'.ret = "notfound"
                  => ~HasService(gitServiceMap[w], WorkflowID)
    ]_vars

\* CreateBranchActivity failed twice on the worker that has no entry
C34_Witness ==
  /\ invocation.pc = "returned"
  /\ invocation.name = "CreateBranchActivity"
  /\ invocation.worker = 2
  /\ invocation.ret = "notfound"
  /\ invocation.runs = 2
  /\ invocation.last.name = "CreateBranchActivity"
  /\ invocation.last.ret = "notfound"
  /\ repos[1].branches = <<>>

\* C35: the terminal status in the table agrees with what
\* CodeGenerationWorkflow returned. Once the run has ended, the stored status
\* is COMPLETED exactly when the run returned without error (planning, every
\* step and combining succeeded), it is FAILED with a non-empty error detail
\* exactly when the run ended with an error, and COMPLETED goes with an empty
\* error detail.
C35_StatusAgreesWithReturn ==
  cgPc = "done"
    => LET has == WorkflowID \in DOMAIN results
           status == IF has THEN results[WorkflowID].status ELSE "no row"
           detail == IF has THEN results[WorkflowID].error_details ELSE NULL
       IN /\ status = "COMPLETED"
               <=> /\ cgRet.status = "ok"
                   /\ executionErr = "" /\ combineErr = "" /\ planningErr = ""
          /\ (status = "FAILED" /\ detail \notin {NULL, ""})
               <=> cgRet.status # "ok"
          /\ status = "COMPLETED" => detail \in {NULL, ""}

C37_NoSelfCollision ==
  ~(/\ ret.status = "error"
    /\ ret.cause = "collision"
    /\ ret.err = ErrKind("CreateBranchActivity"))

\* C38: when writing or staging a file fails, WriteFilesAndCommitActivity
\* returns an error without a commit and without undoing anything: the
\* commits are those the call started with, and every file the loop had
\* written before holds its new content.
C38_FailedWriteKeepsEarlierFiles ==
  [][(invocation.pc = "write" /\ invocation'.ret = "error")
       => /\ invocation'.pc = "returned"
          /\ repos'[1].hist = invocation.start.hist
          /\ RepoHeadHash(repos'[1]) = RepoHeadHash(invocation.start)
          /\ \A f \in DOMAIN invocation.changes \ invocation.todo :
               repos'[1].wt[f] = invocation.changes[f]
    ]_vars

\* the second file failed after the first was written with new content
C38_Witness ==
  /\ invocation.pc = "returned"
  /\ invocation.name = "WriteFilesAndCommitActivity"
  /\ invocation.ret = "error"
  /\ invocation.todo # {}
  /\ repos[1].hist = invocation.start.hist
  /\ \E f \in DOMAIN invocation.changes \ invocation.todo :
       /\ invocation.start.wt[f] # invocation.changes[f]
       /\ repos[1].wt[f] = invocation.changes[f]

\* C39: once CleanupGitActivity has removed the entry of a workflow ID on a
\* worker, and until InitGitActivity registers the ID there again, the handle
\* lookup every git activity starts with finds nothing for that ID (for a
\* lookup that no write of the map overlapped).
C39_NoHandleAfterCleanup ==
  (/\ regLast.kind = "lookup"
   /\ ~regLast.raced
   /\ regLast.id \in regLast.gone)
    => /\ ~regLast.found
       /\ ~HasService(regLast.before, regLast.id)
       /\ gitServiceMap[1] = regLast.before

\* a lookup of codegen-1 after its entry was registered and removed, while
\* codegen-2 is registered
C39_Witness ==
  /\ regLast.kind = "lookup"
  /\ ~regLast.raced
  /\ regLast.id = WorkflowID
  /\ WorkflowID \in regLast.gone
  /\ ~regLast.found
  /\ HasService(gitServiceMap[1], "codegen-2")

\* C40: the step outputs of the terminal save are all or nothing. When the
\* deferred save is about to run, its StepOutputs is the list of the outputs
\* of all steps, in plan order, if every step completed and the COMBINING
\* save was called, and the empty list "[]" otherwise, whatever number of
\* steps had completed; and the table never holds the outputs of a part of
\* the steps.
C40_StepOutputsAllOrNothing ==
  /\ cgPc = "FinalSave"
       => LET entered == \E j \in 1..Len(cgCalls) :
                           /\ cgCalls[j].name = "SaveResultActivity"
                           /\ cgCalls[j].arg = "COMBINING"
              all == planSteps >= 1 /\ Len(executionOutputs) = planSteps
          IN /\ saveInput.StepOutputs =
                  (IF all /\ entered THEN Marshal(executionOutputs) ELSE "[]")
             /\ entered => all
  /\ (WorkflowID \in DOMAIN results /\ cgPc # "idle")
       => \/ results[WorkflowID].step_outputs \in {NULL, "", "[]"}
          \/ /\ results[WorkflowID].step_outputs = Marshal(executionOutputs)
             /\ Len(executionOutputs) = planSteps

\* the second step failed after the first completed: the terminal save has
\* the empty list
C40_Witness ==
  /\ cgPc = "FinalSave"
  /\ planSteps = 2
  /\ Len(executionOutputs) = 1
  /\ executionErr = StepFailed(2, "APIError")
  /\ saveInput.StepOutputs = "[]"
  /\ saveInput.Status = "FAILED"

====
